---- MODULE Spec2Model ----
(***************************************************************************)
(* A model of the prompt compressor: the structural segmenter              *)
(* (compressor.split), the iterative reduction scheduler                   *)
(* (step4.compress_to_target) and the result cache (cache.cached_compress  *)
(* as main.py drives it).                                                  *)
(*                                                                         *)
(* A document is a sequence of lines (str.splitlines(keepends=True)).  A   *)
(* line is abstracted to the class the three regular expressions and the   *)
(* blank test of split put it in, and to its whitespace word count, the    *)
(* tokenizer the repository itself implements (_tok_count).  A text is the *)
(* sequence of its lines, so a slice of the document and a join of parts   *)
(* are sequences that can differ.                                          *)
(***************************************************************************)
EXTENDS Integers, Sequences, FiniteSets, TLC

VARIABLES
    \* ---- compressor.split
    lines,       \* text.splitlines(keepends=True)
    pcS,         \* position in split: "scan", "pack", "final", "done"
    i,           \* number of lines consumed by the scan loop
    pos,         \* character offset of the next unconsumed line
    blocks,      \* atomic blocks emitted by phase 1
    bi,          \* number of blocks consumed by the packing loop
    packed,      \* chunks emitted so far
    cur_parts,   \* accumulation buffer: the texts of its blocks
    cur_start,
    cur_end,
    cur_tokens,
    cur_kind,
    \* ---- step4.compress_to_target
    chunks,        \* the chunk list, mutated in place
    entry,         \* the chunk list as it was passed in
    target_tokens,
    batch_size,
    pc,            \* position: "idle", "loop", "gather", "done"
    cur,
    it,
    improved,
    batch,         \* batch_candidates: (chunk, new_tok) pairs
    results,       \* per request: pending, failed or the text returned
    sent,          \* per chunk: the requests made of the rewrite oracle
    order,         \* the requests of the last batch in the order they completed
    \* ---- cache.cached_compress under main.main
    store,         \* compression_cache: content_hash -> row
    now,           \* CURRENT_TIMESTAMP
    req,           \* per run: (text, intent, reduction_ratio)
    pcR,           \* per run: position in main / cached_compress
    calls,         \* per run: invocations of compress_func
    got,           \* per run: what compress_func returned
    ret,           \* per run: what cached_compress returned
    result,        \* per run: the result main prints
    reply,         \* the last call on the cache object and what it returned
    \* ---- main.main and demo.py
    prog,          \* what runs: "main", "demo", or "rate" for a call of
                   \* rate_chunks by itself
    preset,        \* --preset
    raw,           \* the answer to "Desired reduction"
    fresh,         \* what split(text) returns for the input file
    concurrency,   \* the concurrency rate_chunks is called with
    holding,       \* the chunks whose one(ch) is inside `async with sem`
    pcM,           \* position in the script
    reduce_by,     \* the fraction, in hundredths (the double nearest to it)
    budget,        \* what plan returned
    made           \* what perform_compression returned, or demo printed

varsSplit == <<lines, pcS, i, pos, blocks, bi, packed, cur_parts,
               cur_start, cur_end, cur_tokens, cur_kind>>

varsSched == <<chunks, entry, target_tokens, batch_size, pc, cur, it,
               improved, batch, results, sent, order>>

varsCache == <<store, now, req, pcR, calls, got, ret, result>>

varsApi == <<reply>>

varsMain == <<prog, preset, raw, fresh, concurrency, holding, pcM, reduce_by, budget, made>>

vars == <<varsSplit, varsSched, varsCache, varsApi, varsMain>>

\* ------------------------------------------------------------------------
\* Bounds and program constants
\* ------------------------------------------------------------------------

\* longest document, in lines
MaxLines == 4

CH_MIN == 2000
CH_MAX == 4000

\* Python's None for cur_start, cur_end
None == -1

\* word counts a non-blank line may have
TokVals == {1000, 2000}

\* the classes of a line, in the order split tests them
LineSet ==
    {[kind |-> "blank", toks |-> 0]}
    \cup {[kind |-> k, toks |-> t] : k \in {"fence", "heading", "list", "plain"}, t \in TokVals}

Docs == UNION {[1..n -> LineSet] : n \in 0..MaxLines}

\* ------------------------------------------------------------------------
\* Texts
\* ------------------------------------------------------------------------

\* len(line): a blank line is its line break; a line of n one-letter words
\* is the words, the blanks between them and the line break
LineLen(l) == IF l.toks = 0 THEN 1 ELSE 2 * l.toks

RECURSIVE TextLen(_)
TextLen(t) == IF t = <<>> THEN 0 ELSE LineLen(Head(t)) + TextLen(Tail(t))

\* _tok_count: len(s.split())
RECURSIVE tok(_)
tok(t) == IF t = <<>> THEN 0 ELSE Head(t).toks + tok(Tail(t))

\* "".join(parts)
RECURSIVE Join(_)
Join(parts) == IF parts = <<>> THEN <<>> ELSE Head(parts) \o Join(Tail(parts))

\* text[start:end] for offsets that fall on line starts; the lines wholly
\* inside [start, end)
RECURSIVE SliceFrom(_, _, _, _)
SliceFrom(t, at, start, end) ==
    IF t = <<>> THEN <<>>
    ELSE LET rest == SliceFrom(Tail(t), at + LineLen(Head(t)), start, end)
         IN IF at >= start /\ at + LineLen(Head(t)) <= end
            THEN <<Head(t)>> \o rest ELSE rest

Slice(start, end) == SliceFrom(lines, 0, start, end)

\* ------------------------------------------------------------------------
\* split, phase 1: atomic blocks
\* ------------------------------------------------------------------------

n == Len(lines)

IsBlank(l) == l.kind = "blank"
IsFence(l) == l.kind = "fence"
IsHeading(l) == l.kind = "heading"
IsList(l) == l.kind = "list"

\* the inner loop of the code-block case, ended by a blank line too
RECURSIVE FenceScanToBlank(_)
FenceScanToBlank(k) ==
    IF k <= n /\ ~IsFence(lines[k]) /\ ~IsBlank(lines[k])
    THEN FenceScanToBlank(k + 1) ELSE k

\* the inner loop of the code-block case, never entered
FenceScanNext(k) == k

\* the inner loop of the code-block case: the first fence line after
\* line k, or n + 1 when the fence is never closed
RECURSIVE FenceScan(_)
FenceScan(k) == IF k <= n /\ ~IsFence(lines[k]) THEN FenceScan(k + 1) ELSE k

\* the inner loop of the list and paragraph cases: the first line at or
\* after k that is blank or structural, or n + 1
RECURSIVE ContScan(_)
ContScan(k) ==
    IF k <= n /\ ~(IsBlank(lines[k]) \/ IsList(lines[k])
                   \/ IsHeading(lines[k]) \/ IsFence(lines[k]))
    THEN ContScan(k + 1) ELSE k

\* the inner loop of the blank case
RECURSIVE BlankScan(_)
BlankScan(k) == IF k <= n /\ IsBlank(lines[k]) THEN BlankScan(k + 1) ELSE k

\* emit(kind, start, end)
emit(kind, start, end) ==
    Append(blocks, [idx |-> Len(blocks), start |-> start, end |-> end,
                    text |-> Slice(start, end), tokens |-> tok(Slice(start, end)),
                    kind |-> kind])

\* One pass of `while i < n`.  Line numbers are 1-based: the code's
\* lines[i] is lines[i + 1] here.
ScanCode ==
    /\ IsFence(lines[i + 1])
    /\ LET j == FenceScan(i + 2)
           stop == IF j <= n THEN j ELSE n
           e == pos + TextLen(SubSeq(lines, i + 1, stop))
       IN /\ i' = stop
          /\ pos' = e
          /\ blocks' = emit("code", pos, e)

ScanHeading ==
    /\ ~IsFence(lines[i + 1])
    /\ IsHeading(lines[i + 1])
    /\ i' = i + 1
    /\ pos' = pos + LineLen(lines[i + 1])
    /\ blocks' = emit("heading", pos, pos + LineLen(lines[i + 1]))

ScanList ==
    /\ ~IsFence(lines[i + 1])
    /\ ~IsHeading(lines[i + 1])
    /\ IsList(lines[i + 1])
    /\ LET j == ContScan(i + 2)
           e == pos + TextLen(SubSeq(lines, i + 1, j - 1))
           eat == j <= n /\ IsBlank(lines[j])
       IN /\ blocks' = emit("list", pos, e)
          /\ i' = IF eat THEN j ELSE j - 1
          /\ pos' = IF eat THEN e + LineLen(lines[j]) ELSE e

ScanBlank ==
    /\ IsBlank(lines[i + 1])
    /\ LET j == BlankScan(i + 1)
       IN /\ i' = j - 1
          /\ pos' = pos + TextLen(SubSeq(lines, i + 1, j - 1))
          /\ blocks' = blocks

ScanParagraph ==
    /\ ~IsFence(lines[i + 1])
    /\ ~IsHeading(lines[i + 1])
    /\ ~IsList(lines[i + 1])
    /\ ~IsBlank(lines[i + 1])
    /\ LET j == ContScan(i + 2)
           e == pos + TextLen(SubSeq(lines, i + 1, j - 1))
       IN /\ i' = j - 1
          /\ pos' = e
          /\ blocks' = emit("paragraph", pos, e)

ScanStep ==
    /\ pcS = "scan"
    /\ i < n
    /\ (ScanCode \/ ScanHeading \/ ScanList \/ ScanBlank \/ ScanParagraph)
    /\ UNCHANGED <<lines, pcS, bi, packed, cur_parts, cur_start, cur_end,
                   cur_tokens, cur_kind>>
    /\ UNCHANGED <<varsSched, varsCache, varsApi, varsMain>>

\* the scan loop ends; the packing state is initialised (lines 109-115)
ScanDone ==
    /\ pcS = "scan"
    /\ i >= n
    /\ pcS' = "pack"
    /\ UNCHANGED <<lines, i, pos, blocks, bi, packed, cur_parts, cur_start,
                   cur_end, cur_tokens, cur_kind>>
    /\ UNCHANGED <<varsSched, varsCache, varsApi, varsMain>>

\* ------------------------------------------------------------------------
\* split, phase 2: packing
\* ------------------------------------------------------------------------

\* a chunk numbered from 1
ChunkOneBased(list, start, end, text, tokens, kind) ==
    [idx |-> Len(list) + 1, start |-> start, end |-> end, text |-> text,
     tokens |-> tokens, kind |-> kind]

\* the dict of lines 123-131 (and 139-147, 174-182, 198-206): idx is
\* len(packed) before the append
Chunk(list, start, end, text, tokens, kind) ==
    [idx |-> Len(list), start |-> start, end |-> end, text |-> text,
     tokens |-> tokens, kind |-> kind]

\* flush(): the chunk list after it; the buffer is reset by the caller's
\* assignment that follows every call
flush(list) ==
    IF cur_parts = <<>> THEN list
    ELSE Append(list, Chunk(list, cur_start, cur_end, Join(cur_parts),
                            tok(Join(cur_parts)), cur_kind))

\* the merge of the buffer into the previous chunk (lines 171-182, 195-206)
merge(list) ==
    LET last == list[Len(list)]
        rest == SubSeq(list, 1, Len(list) - 1)
        merged_txt == last.text \o Join(cur_parts)
    IN Append(rest, Chunk(rest, last.start, cur_end, merged_txt,
                          tok(merged_txt), "section"))

\* the comparison of line 156 with < for <=
FitsStrictly(a, b) == a + b < CH_MAX

\* the comparison of line 156
Fits(a, b) == a + b <= CH_MAX

\* a merge that is made whether or not it fits
MergeFitsAlways(a, b) == TRUE

\* the comparison of lines 169 and 194: the previous chunk and the buffer
\* together stay within CH_MAX
MergeFits(a, b) == a + b <= CH_MAX

\* the test of line 137
Oversized(btok) == btok > CH_MAX

\* the test of line 162
BigEnough(t) == t >= CH_MIN

\* cur_parts = [b["text"]]; cur_start, cur_end = ...; cur_tokens = btok; ...
StartWith(b) ==
    /\ cur_parts' = <<b.text>>
    /\ cur_start' = b.start
    /\ cur_end' = b.end
    /\ cur_tokens' = tok(b.text)
    /\ cur_kind' = b.kind

\* one pass of `for b in blocks`
PackStep ==
    /\ pcS = "pack"
    /\ bi < Len(blocks)
    /\ bi' = bi + 1
    /\ LET b == blocks[bi + 1]
           btok == tok(b.text)
       IN IF Oversized(btok) /\ cur_parts = <<>>
          THEN /\ packed' = Append(packed, Chunk(packed, b.start, b.end, b.text, btok, b.kind))
               /\ UNCHANGED <<cur_parts, cur_start, cur_end, cur_tokens, cur_kind>>
          ELSE IF cur_parts = <<>>
          THEN /\ StartWith(b)
               /\ packed' = packed
          ELSE IF Fits(cur_tokens, btok)
          THEN /\ cur_parts' = Append(cur_parts, b.text)
               /\ cur_end' = b.end
               /\ cur_tokens' = cur_tokens + btok
               /\ cur_kind' = IF cur_kind # b.kind THEN "section" ELSE cur_kind
               /\ UNCHANGED <<packed, cur_start>>
          ELSE IF BigEnough(cur_tokens)
          THEN /\ packed' = flush(packed)
               /\ StartWith(b)
          ELSE IF packed # <<>> /\ MergeFits(packed[Len(packed)].tokens, cur_tokens)
          THEN /\ packed' = merge(packed)
               /\ StartWith(b)
          ELSE /\ packed' = flush(packed)
               /\ StartWith(b)
    /\ UNCHANGED <<lines, pcS, i, pos, blocks>>
    /\ UNCHANGED <<varsSched, varsCache, varsApi, varsMain>>

\* the loop over the blocks ends
PackDone ==
    /\ pcS = "pack"
    /\ bi >= Len(blocks)
    /\ pcS' = "final"
    /\ UNCHANGED <<lines, i, pos, blocks, bi, packed, cur_parts, cur_start,
                   cur_end, cur_tokens, cur_kind>>
    /\ UNCHANGED <<varsSched, varsCache, varsApi, varsMain>>

\* lines 193-211: the last buffer is merged or flushed and packed returned
FinalFlush ==
    /\ pcS = "final"
    /\ pcS' = "done"
    /\ IF cur_parts # <<>>
       THEN IF /\ packed # <<>>
               /\ MergeFits(tok(packed[Len(packed)].text), cur_tokens)
               /\ ~BigEnough(cur_tokens)
            THEN /\ packed' = merge(packed)
                 /\ UNCHANGED <<cur_parts, cur_start, cur_end, cur_tokens, cur_kind>>
            ELSE /\ packed' = flush(packed)
                 /\ cur_parts' = <<>>
                 /\ cur_start' = None
                 /\ cur_end' = None
                 /\ cur_tokens' = 0
                 /\ cur_kind' = "section"
       ELSE UNCHANGED <<packed, cur_parts, cur_start, cur_end, cur_tokens, cur_kind>>
    /\ UNCHANGED <<lines, i, pos, blocks, bi>>
    /\ UNCHANGED <<varsSched, varsCache, varsApi, varsMain>>

SplitStart(doc) ==
    /\ lines = doc
    /\ pcS = "scan"
    /\ i = 0
    /\ pos = 0
    /\ blocks = <<>>
    /\ bi = 0
    /\ packed = <<>>
    /\ cur_parts = <<>>
    /\ cur_start = None
    /\ cur_end = None
    /\ cur_tokens = 0
    /\ cur_kind = "section"

NextSplit == ScanStep \/ ScanDone \/ PackStep \/ PackDone \/ FinalFlush

\* ------------------------------------------------------------------------
\* step4.compress_to_target
\* ------------------------------------------------------------------------

\* most chunks of a varied input
MaxChunks == 2

\* chunks of the uniform input that runs into the iteration cap
LongChunks == 16

\* `it < 32`
MaxIter == 32

\* `_compression_attempts ... >= 3`
MaxAttempts == 3

TokChoices == {1, 4, 10}
ScoreChoices == {2, 8}
BatchChoices == {1, 2}

\* A chunk text is abstracted to its lineage (rev: how many rewrites lie
\* behind it) and its token count; _tok(s) is s.toks.
Text(rev, toks) == [rev |-> rev, toks |-> toks]
_tok(s) == s.toks

\* the chunk list plan() leaves: tokens recounted from the text, the score
\* rate_chunks set, no bookkeeping keys yet (.get(..., 0) reads 0); the id
\* split gave the chunk is its number and the digest of its text
RECURSIVE StartOf(_, _)
StartOf(f, k) == IF k = 1 THEN 0 ELSE StartOf(f, k - 1) + f[k - 1][1]

MkChunks(f) ==
    [k \in 1..Len(f) |->
        [id |-> <<k - 1, Text(0, f[k][1])>>,
         idx |-> k - 1, start |-> StartOf(f, k), end |-> StartOf(f, k) + f[k][1],
         kind |-> "section", text |-> Text(0, f[k][1]), tokens |-> f[k][1],
         score |-> f[k][2], attempts |-> 0, orig |-> 0]]

RECURSIVE SumToks(_)
SumToks(cs) == IF cs = <<>> THEN 0 ELSE _tok(Head(cs).text) + SumToks(Tail(cs))

\* total()
total(cs) == SumToks(cs)

VariedInputs ==
    {[chunks |-> MkChunks(f), target |-> t, batch_size |-> b] :
        f \in UNION {[1..m -> TokChoices \X ScoreChoices] : m \in 0..MaxChunks},
        t \in {0, 12}, b \in BatchChoices}

LongInputs ==
    {[chunks |-> MkChunks([k \in 1..LongChunks |-> <<4, 5>>]),
      target |-> 0, batch_size |-> 1]}

\* a chunk of two tokens, the fewest a request is dispatched for, beside
\* one of three
TinyInputs ==
    {[chunks |-> MkChunks(<<<<2, 2>>, <<3, 8>>>>), target |-> t, batch_size |-> b] :
        t \in {0, 4}, b \in BatchChoices}

SchedInputs == VariedInputs \cup LongInputs \cup TinyInputs

\* _key with the token count ascending
KeyLessSmallFirst(a, b) ==
    \/ a.score < b.score
    \/ a.score = b.score /\ a.tokens < b.tokens

\* _key: (score, -tokens), compared as Python compares tuples
KeyLess(a, b) ==
    \/ a.score < b.score
    \/ a.score = b.score /\ a.tokens > b.tokens

\* sorted(chunks, key=_key): the stable sort, as the list of chunk numbers
candidates ==
    LET N == Len(chunks)
        Before(j, k) ==
            \/ KeyLess(chunks[j], chunks[k])
            \/ ~KeyLess(chunks[k], chunks[j]) /\ j < k
        Rank(k) == 1 + Cardinality({j \in 1..N : j # k /\ Before(j, k)})
    IN [r \in 1..N |-> CHOOSE k \in 1..N : Rank(k) = r]

Max(a, b) == IF a >= b THEN a ELSE b
Min(a, b) == IF a <= b THEN a ELSE b

\* line 94 with 0.5 for 0.4
NewTokHalf(t0, need) ==
    Max(1, t0 - Max(1, Min((5 * t0) \div 10, need \div Max(1, batch_size))))

\* line 94; int(t0*0.4) is (4*t0) \div 10 for the token counts of the model
NewTok(t0, need) ==
    Max(1, t0 - Max(1, Min((4 * t0) \div 10, need \div Max(1, batch_size))))

\* the skips of lines 83-84 without the test of the attempt counter
SkippedNoCap(ch, sofar) ==
    \/ _tok(ch.text) <= 1
    \/ Len(sofar) >= batch_size

\* the three skips of lines 83-84
Skipped(ch, sofar) ==
    \/ _tok(ch.text) <= 1
    \/ Len(sofar) >= batch_size
    \/ ch.attempts >= MaxAttempts

\* line 88: t0 < ch['_original_tokens'] * 0.7
Diminished(ch) == ch.orig # 0 /\ 10 * _tok(ch.text) < 7 * ch.orig

\* the loop of lines 80-95 from candidate r on: the batch and the chunk
\* list, in which a chunk selected for the first time has its original
\* token count recorded
RECURSIVE Select(_, _, _, _)
Select(r, sofar, cs, need) ==
    IF r > Len(cs) THEN [batch |-> sofar, chunks |-> cs]
    ELSE LET k == candidates[r]
             ch == cs[k]
             t0 == _tok(ch.text)
         IN IF Skipped(ch, sofar) \/ Diminished(ch)
            THEN Select(r + 1, sofar, cs, need)
            ELSE Select(r + 1,
                        Append(sofar, [ch |-> k, new_tok |-> NewTok(t0, need), t0 |-> t0]),
                        [cs EXCEPT ![k].orig = IF ch.orig = 0 THEN t0 ELSE ch.orig],
                        need)

\* the loop condition without the iteration cap
LoopGuardNoCap == cur > target_tokens

\* the loop condition of line 72
LoopGuard == cur > target_tokens /\ it < MaxIter

\* every response accepted
AcceptsAll(new_tokens, t0) == TRUE

\* a response of the same length accepted too
AcceptsEqual(new_tokens, t0) == new_tokens <= t0

\* line 115
Accepts(new_tokens, t0) == new_tokens < t0

\* the texts a rewrite request for a text of t0 tokens may come back with:
\* as short as asked, one token shorter, as long, longer, or the text
\* itself when the oracle's output is empty (line 53)
Outputs(t, new_tok) ==
    {Text(t.rev + 1, m) : m \in {new_tok, _tok(t) - 1, _tok(t), _tok(t) + 1}}
    \cup {t}

\* what gather holds for one request: not back yet, an exception, or the
\* (ch, out, t0) a request returned
Pending == [st |-> "pending"]
Failed == [st |-> "failed"]
Returned(out) == [st |-> "ok", out |-> out]

\* `while` is entered: a batch is selected and its requests are dispatched
Iterate ==
    /\ pc = "loop"
    /\ LoopGuard
    /\ LET sel == Select(1, <<>>, chunks, cur - target_tokens)
       IN /\ sel.batch # <<>>
          /\ it' = it + 1
          /\ improved' = FALSE
          /\ chunks' = sel.chunks
          /\ batch' = sel.batch
          /\ results' = [k \in 1..Len(sel.batch) |-> Pending]
          /\ order' = <<>>
          /\ sent' = [c \in 1..Len(chunks) |->
                        IF \E k \in 1..Len(sel.batch) : sel.batch[k].ch = c
                        THEN sent[c] + 1 ELSE sent[c]]
          /\ pc' = "gather"
    /\ UNCHANGED <<entry, target_tokens, batch_size, cur>>
    /\ UNCHANGED <<varsSplit, varsCache, varsApi, varsMain>>

\* `if not batch_candidates: break`
NoCandidates ==
    /\ pc = "loop"
    /\ LoopGuard
    /\ Select(1, <<>>, chunks, cur - target_tokens).batch = <<>>
    /\ it' = it + 1
    /\ improved' = FALSE
    /\ pc' = "done"
    /\ UNCHANGED <<chunks, entry, target_tokens, batch_size, cur, batch, results, sent, order>>
    /\ UNCHANGED <<varsSplit, varsCache, varsApi, varsMain>>

\* the loop condition fails: target met or iteration cap reached
LoopExit ==
    /\ pc = "loop"
    /\ ~LoopGuard
    /\ pc' = "done"
    /\ UNCHANGED <<chunks, entry, target_tokens, batch_size, cur, it, improved,
                   batch, results, sent, order>>
    /\ UNCHANGED <<varsSplit, varsCache, varsApi, varsMain>>

\* one request of the batch completes with a text (_compress_chunk_async
\* returns): requests complete in any order
Respond ==
    /\ pc = "gather"
    /\ \E k \in 1..Len(batch) :
           /\ results[k].st = "pending"
           /\ \E out \in Outputs(chunks[batch[k].ch].text, batch[k].new_tok) :
                  results' = [results EXCEPT ![k] = Returned(out)]
           /\ order' = Append(order, k)
    /\ UNCHANGED <<chunks, entry, target_tokens, batch_size, pc, cur, it,
                   improved, batch, sent>>
    /\ UNCHANGED <<varsSplit, varsCache, varsApi, varsMain>>

\* one request of the batch raises (gather keeps the exception)
Fail ==
    /\ pc = "gather"
    /\ \E k \in 1..Len(batch) :
           /\ results[k].st = "pending"
           /\ results' = [results EXCEPT ![k] = Failed]
           /\ order' = Append(order, k)
    /\ UNCHANGED <<chunks, entry, target_tokens, batch_size, pc, cur, it,
                   improved, batch, sent>>
    /\ UNCHANGED <<varsSplit, varsCache, varsApi, varsMain>>

\* the k-th result as of a list kept in the order of completion
ResultByArrival(k) == results[order[k]]

\* line 105: gather returns the results in the order of `tasks`, whatever
\* the order the requests completed in
ResultOf(k) == results[k]

\* lines 108-118 with the end offset moved to fit an accepted text
AppliedMovesEnd(ch, res, t0) ==
    IF res.st = "failed" THEN ch
    ELSE IF Accepts(_tok(res.out), t0)
         THEN [ch EXCEPT !.attempts = @ + 1, !.text = res.out, !.tokens = _tok(res.out),
                         !.end = ch.start + _tok(res.out)]
         ELSE [ch EXCEPT !.attempts = @ + 1]

\* lines 108-118 for the chunk of request k, given its result
Applied(ch, res, t0) ==
    IF res.st = "failed" THEN ch
    ELSE IF Accepts(_tok(res.out), t0)
         THEN [ch EXCEPT !.attempts = @ + 1, !.text = res.out, !.tokens = _tok(res.out)]
         ELSE [ch EXCEPT !.attempts = @ + 1]

\* whether request k's result was accepted
Improves(k) ==
    ResultOf(k).st = "ok" /\ Accepts(_tok(ResultOf(k).out), batch[k].t0)

\* the loop without its stall check
GoesOnAnyway(imp) == TRUE

\* lines 121-125: the loop goes on only after an iteration that improved
GoesOn(imp) == imp

\* gather has returned: the results are applied in batch order, the total
\* is recomputed, and the loop goes on or breaks
Apply ==
    /\ pc = "gather"
    /\ \A k \in 1..Len(batch) : results[k].st # "pending"
    /\ LET after == [c \in 1..Len(chunks) |->
                        IF \E k \in 1..Len(batch) : batch[k].ch = c
                        THEN LET k == CHOOSE k \in 1..Len(batch) : batch[k].ch = c
                             IN Applied(chunks[c], ResultOf(k), batch[k].t0)
                        ELSE chunks[c]]
           imp == \E k \in 1..Len(batch) : Improves(k)
       IN /\ chunks' = after
          /\ improved' = imp
          /\ cur' = total(after)
          /\ pc' = IF GoesOn(imp) THEN "loop" ELSE "done"
    /\ batch' = <<>>
    /\ results' = <<>>
    /\ UNCHANGED <<entry, target_tokens, batch_size, it, sent, order>>
    /\ UNCHANGED <<varsSplit, varsCache, varsApi, varsMain>>

SchedStart(inp) ==
    /\ chunks = inp.chunks
    /\ entry = inp.chunks
    /\ target_tokens = inp.target
    /\ batch_size = inp.batch_size
    /\ pc = "loop"
    /\ cur = total(inp.chunks)
    /\ it = 0
    /\ improved = FALSE
    /\ batch = <<>>
    /\ results = <<>>
    /\ sent = [c \in 1..Len(inp.chunks) |-> 0]
    /\ order = <<>>

\* no call of compress_to_target is under way
SchedIdle ==
    /\ chunks = <<>>
    /\ entry = <<>>
    /\ target_tokens = 0
    /\ batch_size = 1
    /\ pc = "idle"
    /\ cur = 0
    /\ it = 0
    /\ improved = FALSE
    /\ batch = <<>>
    /\ results = <<>>
    /\ sent = <<>>
    /\ order = <<>>

NextSched == Iterate \/ NoCandidates \/ LoopExit \/ Respond \/ Fail \/ Apply

\* ------------------------------------------------------------------------
\* cache.cached_compress, as main.main calls it
\* ------------------------------------------------------------------------

\* the two invocations the cache claims speak of
Runs == {1, 2}

\* last value of the clock
MaxTime == 2

\* a text is a sequence of characters
Texts == {<<"a">>, <<" ", "a", " ">>}

\* Python's None for the intent
NoIntent == "None"
Intents == {NoIntent, "", "x"}

\* reduction fractions, in percent
Ratios == {30, 50}

Requests == [text : Texts, intent : Intents, reduction_ratio : Ratios]

\* text.strip()
RECURSIVE LStrip(_)
LStrip(t) == IF t # <<>> /\ Head(t) = " " THEN LStrip(Tail(t)) ELSE t

RECURSIVE RStrip(_)
RStrip(t) ==
    IF t # <<>> /\ t[Len(t)] = " " THEN RStrip(SubSeq(t, 1, Len(t) - 1)) ELSE t

Strip(t) == RStrip(LStrip(t))

\* _hash_content without text.strip()
HashUnstripped(text, intent, reduction_ratio) ==
    <<IF intent = NoIntent THEN "" ELSE intent, reduction_ratio, text>>

\* _hash_content: the digest of the canonical JSON of the three values,
\* taken to be free of collisions
_hash_content(text, intent, reduction_ratio) ==
    <<IF intent = NoIntent THEN "" ELSE intent, reduction_ratio, Strip(text)>>

KeyOf(q) == _hash_content(q.text, q.intent, q.reduction_ratio)

\* the keys of a chunk dict that cache_result drops
PrivateKeys == {"_original_tokens", "_compression_attempts"}

\* clean_chunk: the keys that do not start with an underscore
CleanChunk(c) == [k \in DOMAIN c \ PrivateKeys |-> c[k]]

\* what perform_compression may return: the stitched text, the chunks with
\* their bookkeeping keys, and the stats main builds (lines 77-83)
Compressions ==
    {[text |-> x.text,
      chunks |-> <<[idx |-> 0, text |-> x.text, tokens |-> x.final,
                    _original_tokens |-> 10, _compression_attempts |-> 1]>>,
      stats |-> [original_tokens |-> 10, target_tokens |-> 7, final_tokens |-> x.final]]
     : x \in {[text |-> <<"x">>, final |-> 7], [text |-> <<"y", "y">>, final |-> 9]}}

\* the row with the original text stored as the compressed text
RowUncompressed(q, g) ==
    [original_text |-> q.text,
     compressed_text |-> q.text,
     chunks |-> [k \in 1..Len(g.chunks) |-> CleanChunk(g.chunks[k])],
     original_tokens |-> g.stats.original_tokens,
     final_tokens |-> g.stats.final_tokens,
     reduction_ratio |-> q.reduction_ratio,
     intent |-> q.intent,
     created_at |-> now,
     accessed_at |-> now]

\* the row cache_result writes (INSERT OR REPLACE; both timestamps default
\* to CURRENT_TIMESTAMP)
Row(q, g) ==
    [original_text |-> q.text,
     compressed_text |-> g.text,
     chunks |-> [k \in 1..Len(g.chunks) |-> CleanChunk(g.chunks[k])],
     original_tokens |-> g.stats.original_tokens,
     final_tokens |-> g.stats.final_tokens,
     reduction_ratio |-> q.reduction_ratio,
     intent |-> q.intent,
     created_at |-> now,
     accessed_at |-> now]

\* the compressed text cached_compress returns on a hit, with the original
\* text taken for it
HitTextOriginal(row) == row.original_text

\* the compressed text cached_compress returns on a hit (line 243)
HitText(row) == row.compressed_text

\* the stats of a hit without the hit flag set
HitStatsUnflagged(row) ==
    [original_tokens |-> row.original_tokens,
     final_tokens |-> row.final_tokens,
     reduction_ratio |-> row.reduction_ratio,
     cache_hit |-> FALSE,
     created_at |-> row.created_at]

\* the stats cached_compress builds on a hit (lines 236-242)
HitStats(row) ==
    [original_tokens |-> row.original_tokens,
     final_tokens |-> row.final_tokens,
     reduction_ratio |-> row.reduction_ratio,
     cache_hit |-> TRUE,
     created_at |-> row.created_at]

\* INSERT OR IGNORE: a row that is present is kept
MissRowsIgnore(q, g) ==
    IF KeyOf(q) \in DOMAIN store THEN store
    ELSE [k \in DOMAIN store \cup {KeyOf(q)} |->
             IF k = KeyOf(q) THEN Row(q, g) ELSE store[k]]

\* the table with cache_result left out
MissRowsNone(q, g) == store

\* the table after cache_result (lines 250-259)
MissRows(q, g) ==
    [k \in DOMAIN store \cup {KeyOf(q)} |->
        IF k = KeyOf(q) THEN Row(q, g) ELSE store[k]]

NoValue == [none |-> TRUE]

\* get_cached_result finds the row: its accessed_at is refreshed and the
\* row as read is returned with the hit flag
Hit(r) ==
    /\ pcR[r] = "start"
    /\ KeyOf(req[r]) \in DOMAIN store
    /\ LET row == store[KeyOf(req[r])]
       IN /\ store' = [store EXCEPT ![KeyOf(req[r])].accessed_at = now]
          /\ ret' = [ret EXCEPT ![r] = [text |-> HitText(row), chunks |-> row.chunks,
                                        stats |-> HitStats(row)]]
    /\ pcR' = [pcR EXCEPT ![r] = "returned"]
    /\ UNCHANGED <<now, req, calls, got, result>>
    /\ UNCHANGED <<varsSplit, varsSched, varsApi, varsMain>>

\* get_cached_result returns None
Miss(r) ==
    /\ pcR[r] = "start"
    /\ KeyOf(req[r]) \notin DOMAIN store
    /\ pcR' = [pcR EXCEPT ![r] = "miss"]
    /\ UNCHANGED <<store, now, req, calls, got, ret, result>>
    /\ UNCHANGED <<varsSplit, varsSched, varsApi, varsMain>>

\* compress_func() returns
Compute(r) ==
    /\ pcR[r] = "miss"
    /\ \E g \in Compressions : got' = [got EXCEPT ![r] = g]
    /\ calls' = [calls EXCEPT ![r] = @ + 1]
    /\ pcR' = [pcR EXCEPT ![r] = "computed"]
    /\ UNCHANGED <<store, now, req, ret, result>>
    /\ UNCHANGED <<varsSplit, varsSched, varsApi, varsMain>>

\* compress_func() raises (a rating request failed): main ends with it
ComputeRaises(r) ==
    /\ pcR[r] = "miss"
    /\ calls' = [calls EXCEPT ![r] = @ + 1]
    /\ pcR' = [pcR EXCEPT ![r] = "failed"]
    /\ UNCHANGED <<store, now, req, got, ret, result>>
    /\ UNCHANGED <<varsSplit, varsSched, varsApi, varsMain>>

\* cache_result, then cached_compress returns with cache_hit = False
Store(r) ==
    /\ pcR[r] = "computed"
    /\ store' = MissRows(req[r], got[r])
    /\ ret' = [ret EXCEPT ![r] =
                  [text |-> got[r].text, chunks |-> got[r].chunks,
                   stats |-> [k \in DOMAIN got[r].stats \cup {"cache_hit"} |->
                                 IF k = "cache_hit" THEN FALSE ELSE got[r].stats[k]]]]
    /\ pcR' = [pcR EXCEPT ![r] = "returned"]
    /\ UNCHANGED <<now, req, calls, got, result>>
    /\ UNCHANGED <<varsSplit, varsSched, varsApi, varsMain>>

\* the keys main reads with stats[...] (lines 107-109)
ReadKeys == {"original_tokens", "target_tokens", "final_tokens"}

\* main builds and prints its result (lines 104-115)
Report(r) ==
    /\ pcR[r] = "returned"
    /\ ReadKeys \subseteq DOMAIN ret[r].stats
    /\ result' = [result EXCEPT ![r] =
                     [compressed |-> ret[r].text,
                      original_tokens |-> ret[r].stats.original_tokens,
                      target_tokens |-> ret[r].stats.target_tokens,
                      final_tokens |-> ret[r].stats.final_tokens,
                      cache_hit |-> IF "cache_hit" \in DOMAIN ret[r].stats
                                    THEN ret[r].stats.cache_hit ELSE FALSE]]
    /\ pcR' = [pcR EXCEPT ![r] = "done"]
    /\ UNCHANGED <<store, now, req, calls, got, ret>>
    /\ UNCHANGED <<varsSplit, varsSched, varsApi, varsMain>>

\* a stats[...] of main raises KeyError
ReportKeyError(r) ==
    /\ pcR[r] = "returned"
    /\ ~(ReadKeys \subseteq DOMAIN ret[r].stats)
    /\ pcR' = [pcR EXCEPT ![r] = "keyerror"]
    /\ UNCHANGED <<store, now, req, calls, got, ret, result>>
    /\ UNCHANGED <<varsSplit, varsSched, varsApi, varsMain>>

\* time passes
Tick ==
    /\ now < MaxTime
    /\ now' = now + 1
    /\ UNCHANGED <<store, req, pcR, calls, got, ret, result>>
    /\ UNCHANGED <<varsSplit, varsSched, varsApi, varsMain>>

CacheStart(qs) ==
    /\ store = <<>>
    /\ now = 0
    /\ req = qs
    /\ pcR = [r \in Runs |-> "start"]
    /\ calls = [r \in Runs |-> 0]
    /\ got = [r \in Runs |-> NoValue]
    /\ ret = [r \in Runs |-> NoValue]
    /\ result = [r \in Runs |-> NoValue]

NextCache ==
    \/ \E r \in Runs : Hit(r) \/ Miss(r) \/ Compute(r) \/ ComputeRaises(r)
                       \/ Store(r) \/ Report(r) \/ ReportKeyError(r)
    \/ Tick

\* ------------------------------------------------------------------------
\* The cache object, called directly: get_cached_result, cache_result and
\* cleanup_old_entries (cache_manager.py calls the last one)
\* ------------------------------------------------------------------------

\* reply records a call: its name, its arguments, the time it was made,
\* what it returned and, for cache_result, what the key held before
\* the requests made of the cache object directly
ApiRequests ==
    {q \in Requests : q.reduction_ratio = 30 /\ q.intent \in {NoIntent, "x"}
                      /\ (q.intent = "x" => q.text = <<"a">>)}

\* days_old
Windows == {0, 1}

\* what a call of cache_result stores apart from the timestamps
Payload(row) ==
    [original_text |-> row.original_text,
     compressed_text |-> row.compressed_text,
     chunks |-> row.chunks,
     original_tokens |-> row.original_tokens,
     final_tokens |-> row.final_tokens,
     reduction_ratio |-> row.reduction_ratio,
     intent |-> row.intent]

\* the table with no timestamp refreshed
TouchNot(k) == store

\* UPDATE ... SET accessed_at = CURRENT_TIMESTAMP WHERE content_hash = ?
Touch(k) == [store EXCEPT ![k].accessed_at = now]

\* the age test made on created_at
ExpiredByCreation(row, days_old) == row.created_at < now - days_old

\* accessed_at < datetime('now', '-{} days')
Expired(row, days_old) == row.accessed_at < now - days_old

\* cache_result(text, compressed_text, chunks, original_tokens,
\* final_tokens, intent, reduction_ratio)
Put ==
    \E q \in ApiRequests, g \in Compressions :
        /\ store' = MissRows(q, g)
        /\ reply' = [op |-> "cache_result", key |-> KeyOf(q), q |-> q, g |-> g,
                     at |-> now,
                     had |-> IF KeyOf(q) \in DOMAIN store
                             THEN Payload(store[KeyOf(q)]) ELSE NoValue,
                     value |-> KeyOf(q)]
        /\ UNCHANGED <<now, req, pcR, calls, got, ret, result>>
        /\ UNCHANGED <<varsSplit, varsSched, varsMain>>

\* get_cached_result(text, intent, reduction_ratio): the row as SELECT read
\* it, or None
Get ==
    \E q \in ApiRequests :
        /\ IF KeyOf(q) \in DOMAIN store
           THEN /\ store' = Touch(KeyOf(q))
                /\ reply' = [op |-> "get_cached_result", key |-> KeyOf(q), q |-> q,
                             at |-> now, value |-> store[KeyOf(q)]]
           ELSE /\ store' = store
                /\ reply' = [op |-> "get_cached_result", key |-> KeyOf(q), q |-> q,
                             at |-> now, value |-> NoValue]
        /\ UNCHANGED <<now, req, pcR, calls, got, ret, result>>
        /\ UNCHANGED <<varsSplit, varsSched, varsMain>>

\* cleanup_old_entries(days_old): cursor.rowcount is the number of rows
\* the DELETE removed
Cleanup ==
    \E days_old \in Windows :
        LET gone == {k \in DOMAIN store : Expired(store[k], days_old)}
        IN /\ store' = [k \in DOMAIN store \ gone |-> store[k]]
           /\ reply' = [op |-> "cleanup_old_entries", days_old |-> days_old,
                        at |-> now, value |-> Cardinality(gone)]
           /\ UNCHANGED <<now, req, pcR, calls, got, ret, result>>
           /\ UNCHANGED <<varsSplit, varsSched, varsMain>>

\* no call has been made of the cache object
ApiIdle == reply = NoValue

NextStore == Put \/ Get \/ Cleanup \/ Tick

\* ------------------------------------------------------------------------
\* Python floats (IEEE 754 binary64), as far as plan() uses them
\* ------------------------------------------------------------------------

\* A magnitude is a binary fixed-point number: bit j of the WBits bits has
\* weight 2^(j - 1 - FBits).  A float is a sign and a magnitude that has at
\* most MantBits significant bits.
FBits == 60
WBits == 76
MantBits == 53

RECURSIVE Pow2(_)
Pow2(e) == IF e = 0 THEN 1 ELSE 2 * Pow2(e - 1)

\* the integer m as a magnitude
FromInt(m) ==
    [j \in 1..WBits |-> IF j > FBits THEN (m \div Pow2(j - FBits - 1)) % 2 ELSE 0]

\* the integer part of a magnitude
RECURSIVE IntFrom(_, _)
IntFrom(x, j) == IF j > WBits THEN 0 ELSE x[j] * Pow2(j - FBits - 1) + IntFrom(x, j + 1)

IntPart(x) == IntFrom(x, FBits + 1)

\* the remainder left after t binary digits of r/100 have been produced
RECURSIVE Rem(_, _)
Rem(r, t) == IF t = 0 THEN r ELSE (2 * Rem(r, t - 1)) % 100

\* the decimal h/100 (h >= 0) cut off after FBits binary digits, and
\* whether anything was cut off
Hundredths(h) ==
    [bits |-> [j \in 1..WBits |->
                  IF j > FBits THEN ((h \div 100) \div Pow2(j - FBits - 1)) % 2
                  ELSE (2 * Rem(h % 100, FBits - j)) \div 100],
     sticky |-> Rem(h % 100, FBits) # 0]

\* the position of the leading one, 0 for zero
Top(x) ==
    IF \A j \in 1..WBits : x[j] = 0 THEN 0
    ELSE CHOOSE j \in 1..WBits : x[j] = 1 /\ \A l \in (j + 1)..WBits : x[l] = 0

\* x + 2^(p - 1 - FBits)
AddBit(x, p) ==
    LET q == CHOOSE q \in p..WBits : x[q] = 0 /\ \A l \in p..(q - 1) : x[l] = 1
    IN [j \in 1..WBits |-> IF j < p THEN x[j] ELSE IF j < q THEN 0
                           ELSE IF j = q THEN 1 ELSE x[j]]

\* round to nearest, ties to even, to MantBits significant bits; sticky
\* says that the exact value lies above x by less than its last bit
Round(x, sticky) ==
    LET cut == Top(x) - MantBits
    IN IF cut <= 0 THEN x
       ELSE LET half == x[cut] = 1
                below == sticky \/ \E j \in 1..(cut - 1) : x[j] = 1
                odd == x[cut + 1] = 1
                kept == [j \in 1..WBits |-> IF j <= cut THEN 0 ELSE x[j]]
            IN IF half /\ (below \/ odd) THEN AddBit(kept, cut + 1) ELSE kept

RECURSIVE AddFrom(_, _, _, _)
AddFrom(x, y, j, carry) ==
    IF j > WBits THEN <<>>
    ELSE <<(x[j] + y[j] + carry) % 2>> \o AddFrom(x, y, j + 1, (x[j] + y[j] + carry) \div 2)

\* x + y
AddMag(x, y) == AddFrom(x, y, 1, 0)

RECURSIVE SubFrom(_, _, _, _)
SubFrom(x, y, j, borrow) ==
    IF j > WBits THEN <<>>
    ELSE <<(2 + x[j] - y[j] - borrow) % 2>>
         \o SubFrom(x, y, j + 1, IF x[j] - y[j] - borrow < 0 THEN 1 ELSE 0)

\* x - y for x >= y
SubMag(x, y) == SubFrom(x, y, 1, 0)

RECURSIVE MulFrom(_, _, _, _)
MulFrom(x, c, j, carry) ==
    IF j > WBits THEN <<>>
    ELSE <<(x[j] * c + carry) % 2>> \o MulFrom(x, c, j + 1, (x[j] * c + carry) \div 2)

\* x * c for an integer c >= 0
MulMag(x, c) == MulFrom(x, c, 1, 0)

\* x < y
LessMag(x, y) ==
    \E j \in 1..WBits : x[j] < y[j] /\ \A l \in (j + 1)..WBits : x[l] = y[l]

\* float(s) for a decimal string s of h hundredths, and float(N) / 100.0 for
\* an integer N = h: the double nearest to h/100
Dbl(h) ==
    LET d == Hundredths(IF h < 0 THEN -h ELSE h)
    IN [neg |-> h < 0, mag |-> Round(d.bits, d.sticky)]

\* 1.0 - x
OneMinus(x) ==
    LET one == FromInt(1)
    IN IF x.neg THEN [neg |-> FALSE, mag |-> Round(AddMag(one, x.mag), FALSE)]
       ELSE IF LessMag(one, x.mag)
            THEN [neg |-> TRUE, mag |-> Round(SubMag(x.mag, one), FALSE)]
            ELSE [neg |-> FALSE, mag |-> Round(SubMag(one, x.mag), FALSE)]

\* c * x for an int c >= 0
Times(c, x) == [neg |-> x.neg, mag |-> Round(MulMag(x.mag, c), FALSE)]

\* int(x): truncation toward zero
int(x) == IF x.neg THEN -IntPart(x.mag) ELSE IntPart(x.mag)


\* ------------------------------------------------------------------------
\* compressor.recount and compressor.plan
\* ------------------------------------------------------------------------

\* recount: every chunk's tokens recomputed from its text
recount(cs) == [k \in 1..Len(cs) |-> [cs[k] EXCEPT !.tokens = _tok(cs[k].text)]]

\* plan; reduce_by is the double nearest to h hundredths
plan(cs, h) ==
    [current |-> total(cs),
     target |-> Max(0, int(Times(total(cs), OneMinus(Dbl(h))))),
     reduce_by |-> h]

\* ------------------------------------------------------------------------
\* main.main with perform_compression, and demo.py
\* ------------------------------------------------------------------------

Progs == {"main", "demo"}

Presets == {"fast", "balanced", "quality"}

\* get_config(preset).rating_concurrency
rating_concurrency(p) ==
    CASE p = "fast" -> 30 [] p = "balanced" -> 20 [] p = "quality" -> 10

\* get_config(preset).max_compression_attempts
max_compression_attempts(p) ==
    CASE p = "fast" -> 2 [] p = "balanced" -> 3 [] p = "quality" -> 4

\* get_config(preset).max_iterations: no preset sets it
max_iterations(p) == 32

\* the default of rate_chunks' parameter concurrency, which demo.py leaves
DefaultConcurrency == 20

\* get_config(preset).compression_batch_size
compression_batch_size(p) ==
    CASE p = "fast" -> 8 [] p = "balanced" -> 5 [] p = "quality" -> 3

\* An answer to the reduction prompt is the number typed, in hundredths, and
\* whether a percent sign follows it; the empty answer stands for "0.30".
\* Numbers above 1 and numbers before a percent sign are whole.
PlainAnswers == {-20, 0, 30, 90, 95, 99, 2500}
PercentAnswers == {3000, 15000}

RawInputs ==
    {[pct |-> FALSE, val |-> v] : v \in PlainAnswers}
    \cup {[pct |-> TRUE, val |-> v] : v \in PercentAnswers}

\* main lines 45-50: the fraction in hundredths
ParseMain(a) ==
    IF a.pct THEN a.val \div 100
    ELSE IF a.val > 100 THEN a.val \div 100 ELSE a.val

\* demo line 11
ParseDemo(a) == IF a.pct THEN a.val \div 100 ELSE a.val

\* a chunk that rate_chunks has not given a score yet
NoScore == -1

\* the token counts of the chunks split returns
PartChoices == {<<>>, <<10>>, <<90>>, <<1000>>, <<4, 6>>}

MainInputs ==
    {[prog |-> g, preset |-> p, raw |-> a,
      fresh |-> MkChunks([k \in 1..Len(f) |-> <<f[k], NoScore>>])] :
        g \in Progs, p \in Presets, a \in RawInputs, f \in PartChoices}

\* sorted(chunks, key=lambda c: c.get("start", 0)), as chunk numbers
ByStart(cs) ==
    LET N == Len(cs)
        Rank(k) == 1 + Cardinality({j \in 1..N :
                        cs[j].start < cs[k].start \/ (cs[j].start = cs[k].start /\ j < k)})
    IN [r \in 1..N |-> CHOOSE k \in 1..N : Rank(k) = r]

\* _assemble: the texts in start order, joined
_assemble(cs) == [r \in 1..Len(cs) |-> cs[ByStart(cs)[r]].text]

\* the reduction prompt is answered and parsed
Parse ==
    /\ pcM = "input"
    /\ reduce_by' = IF prog = "main" THEN ParseMain(raw) ELSE ParseDemo(raw)
    /\ pcM' = "split"
    /\ UNCHANGED <<prog, preset, raw, fresh, concurrency, holding, budget, made>>
    /\ UNCHANGED <<varsSplit, varsSched, varsCache, varsApi>>

\* chunks = split(text)
Split ==
    /\ pcM = "split"
    /\ chunks' = fresh
    /\ pcM' = IF prog = "main" THEN "rate" ELSE "plan"
    /\ UNCHANGED <<entry, target_tokens, batch_size, pc, cur, it, improved,
                   batch, results, sent, order>>
    /\ UNCHANGED <<prog, preset, raw, fresh, concurrency, holding, reduce_by, budget, made>>
    /\ UNCHANGED <<varsSplit, varsCache, varsApi>>

\* a semaphore that hands out a permit whatever it holds
PermitAlways(held, limit) == TRUE

\* asyncio.Semaphore(concurrency): a permit is free while fewer than
\* `concurrency` are held
Permit(held, limit) == held < limit

\* one(ch) enters `async with sem` and sends its request
RateAcquire ==
    /\ pcM = "rate"
    /\ \E c \in 1..Len(chunks) :
           /\ chunks[c].score = NoScore
           /\ c \notin holding
           /\ Permit(Cardinality(holding), concurrency)
           /\ holding' = holding \cup {c}
    /\ UNCHANGED <<prog, preset, raw, fresh, concurrency, pcM, reduce_by, budget, made>>
    /\ UNCHANGED <<varsSplit, varsSched, varsCache, varsApi>>

\* one(ch) of rate_chunks_async completes: the chunk has its score and the
\* permit is given back
RateOne ==
    /\ pcM = "rate"
    /\ \E c \in holding, sc \in ScoreChoices :
           /\ chunks' = [chunks EXCEPT ![c].score = sc]
           /\ holding' = holding \ {c}
    /\ UNCHANGED <<entry, target_tokens, batch_size, pc, cur, it, improved,
                   batch, results, sent, order>>
    /\ UNCHANGED <<prog, preset, raw, fresh, concurrency, pcM, reduce_by, budget, made>>
    /\ UNCHANGED <<varsSplit, varsCache, varsApi>>

\* the request of one(ch) raises: gather (line 59) raises it, and so do
\* rate_chunks_async, asyncio.run (which cancels the other tasks),
\* rate_chunks and the script
RateRaises ==
    /\ pcM = "rate"
    /\ holding # {}
    /\ holding' = {}
    /\ pcM' = "raised"
    /\ UNCHANGED <<prog, preset, raw, fresh, concurrency, reduce_by, budget, made>>
    /\ UNCHANGED <<varsSplit, varsSched, varsCache, varsApi>>

\* gather returns: rate_chunks returns the chunks
RateDone ==
    /\ pcM = "rate"
    /\ \A c \in 1..Len(chunks) : chunks[c].score # NoScore
    /\ pcM' = CASE prog = "main" -> "plan"
                [] prog = "demo" -> "report"
                [] OTHER -> "returned"
    /\ UNCHANGED <<prog, preset, raw, fresh, concurrency, holding, reduce_by, budget, made>>
    /\ UNCHANGED <<varsSplit, varsSched, varsCache, varsApi>>

\* budget = plan(chunks, reduce_by=reduce_by)
Plan ==
    /\ pcM = "plan"
    /\ budget' = plan(chunks, reduce_by)
    /\ chunks' = recount(chunks)
    /\ pcM' = IF prog = "main" THEN "schedule" ELSE "rate"
    /\ UNCHANGED <<entry, target_tokens, batch_size, pc, cur, it, improved,
                   batch, results, sent, order>>
    /\ UNCHANGED <<prog, preset, raw, fresh, concurrency, holding, reduce_by, made>>
    /\ UNCHANGED <<varsSplit, varsCache, varsApi>>

\* compress_to_target(chunks, target_tokens=budget["target"], batch_size=
\* config.compression_batch_size) is called and reaches its loop
CallCompress ==
    /\ pcM = "schedule"
    /\ entry' = chunks
    /\ target_tokens' = budget.target
    /\ batch_size' = compression_batch_size(preset)
    /\ pc' = "loop"
    /\ cur' = total(chunks)
    /\ it' = 0
    /\ pcM' = "compress"
    /\ sent' = [c \in 1..Len(chunks) |-> 0]
    /\ UNCHANGED <<chunks, improved, batch, results, order>>
    /\ UNCHANGED <<prog, preset, raw, fresh, concurrency, holding, reduce_by, budget, made>>
    /\ UNCHANGED <<varsSplit, varsCache, varsApi>>

\* compress_to_target has returned: main lines 72-83
Finish ==
    /\ pcM = "compress"
    /\ pc = "done"
    /\ chunks' = recount(chunks)
    /\ made' = [text |-> _assemble(recount(chunks)),
                stats |-> [original_tokens |-> budget.current,
                           target_tokens |-> budget.target,
                           final_tokens |-> total(chunks)]]
    /\ pcM' = "returned"
    /\ UNCHANGED <<entry, target_tokens, batch_size, pc, cur, it, improved,
                   batch, results, sent, order>>
    /\ UNCHANGED <<prog, preset, raw, fresh, concurrency, holding, reduce_by, budget>>
    /\ UNCHANGED <<varsSplit, varsCache, varsApi>>

\* demo.py lines 17-25
DemoReport ==
    /\ pcM = "report"
    /\ made' = [chunks |-> Len(chunks),
                original_tokens |-> budget.current,
                target_tokens |-> budget.target,
                reduction |-> budget.reduce_by]
    /\ pcM' = "returned"
    /\ UNCHANGED <<prog, preset, raw, fresh, concurrency, holding, reduce_by, budget>>
    /\ UNCHANGED <<varsSplit, varsSched, varsCache, varsApi>>

MainStart(inp) ==
    /\ prog = inp.prog
    /\ preset = inp.preset
    /\ raw = inp.raw
    /\ fresh = inp.fresh
    /\ concurrency = IF inp.prog = "main" THEN rating_concurrency(inp.preset)
                     ELSE DefaultConcurrency
    /\ holding = {}
    /\ pcM = "input"
    /\ reduce_by = 0
    /\ budget = NoValue
    /\ made = NoValue

\* neither script runs
MainIdle ==
    /\ prog = "main"
    /\ preset = "balanced"
    /\ raw = [pct |-> FALSE, val |-> 30]
    /\ fresh = <<>>
    /\ concurrency = DefaultConcurrency
    /\ holding = {}
    /\ pcM = "idle"
    /\ reduce_by = 0
    /\ budget = NoValue
    /\ made = NoValue

\* most chunks handed to a call of rate_chunks by itself
MaxRated == 3

\* the values of concurrency in such a call
Limits == {1, 2}

RateInputs ==
    {[chunks |-> MkChunks([k \in 1..m |-> <<4, NoScore>>]), concurrency |-> l] :
        m \in 0..MaxRated, l \in Limits}

\* rate_chunks(chunks, concurrency=...) is called by itself and has made
\* its semaphore
RateStart(inp) ==
    /\ prog = "rate"
    /\ preset = "balanced"
    /\ raw = [pct |-> FALSE, val |-> 30]
    /\ fresh = inp.chunks
    /\ concurrency = inp.concurrency
    /\ holding = {}
    /\ pcM = "rate"
    /\ reduce_by = 0
    /\ budget = NoValue
    /\ made = NoValue
    /\ chunks = inp.chunks
    /\ entry = <<>>
    /\ target_tokens = 0
    /\ batch_size = 1
    /\ pc = "idle"
    /\ cur = 0
    /\ it = 0
    /\ improved = FALSE
    /\ batch = <<>>
    /\ results = <<>>
    /\ sent = <<>>
    /\ order = <<>>

\* rate_chunks
NextRate == RateAcquire \/ RateOne \/ RateRaises \/ RateDone

NextMain ==
    \/ Parse \/ Split \/ NextRate \/ Plan
    \/ CallCompress \/ Finish \/ DemoReport
    \/ NextSched

\* ------------------------------------------------------------------------
\* Specifications
\* ------------------------------------------------------------------------

\* no run of main is under way
CacheIdle == CacheStart([r \in Runs |-> CHOOSE q \in Requests : TRUE])

InitSplit ==
    (\E doc \in Docs : SplitStart(doc)) /\ SchedIdle /\ CacheIdle /\ ApiIdle /\ MainIdle

SpecSplit == InitSplit /\ [][NextSplit]_vars

InitSched ==
    /\ \E inp \in SchedInputs : SchedStart(inp)
    /\ SplitStart(<<>>) /\ CacheIdle /\ ApiIdle /\ MainIdle

SpecSched == InitSched /\ [][NextSched]_vars

InitCache ==
    /\ \E qs \in [Runs -> Requests] : CacheStart(qs)
    /\ SplitStart(<<>>) /\ SchedIdle /\ ApiIdle /\ MainIdle

SpecCache == InitCache /\ [][NextCache]_vars

InitStore == SplitStart(<<>>) /\ SchedIdle /\ CacheIdle /\ ApiIdle /\ MainIdle

SpecStore == InitStore /\ [][NextStore]_vars

InitMain ==
    /\ \E inp \in MainInputs : MainStart(inp)
    /\ SplitStart(<<>>) /\ SchedIdle /\ CacheIdle /\ ApiIdle

SpecMain == InitMain /\ [][NextMain]_vars

\* a call of one of the two functions that send requests to an oracle:
\* compress_to_target or rate_chunks
InitOracles ==
    /\ \/ (\E inp \in SchedInputs : SchedStart(inp)) /\ MainIdle
       \/ \E inp \in RateInputs : RateStart(inp)
    /\ SplitStart(<<>>) /\ CacheIdle /\ ApiIdle

NextOracles == NextSched \/ NextRate

SpecOracles == InitOracles /\ [][NextOracles]_vars


\* ------------------------------------------------------------------------
\* Claims about split
\* ------------------------------------------------------------------------

DocLen == TextLen(lines)

\* the offset at which line k starts
LineStart(k) == TextLen(SubSeq(lines, 1, k - 1))

\* the number of fence lines among the first k lines
RECURSIVE FenceCount(_)
FenceCount(k) ==
    IF k = 0 THEN 0
    ELSE FenceCount(k - 1) + (IF IsFence(lines[k]) THEN 1 ELSE 0)

\* line k is an opening fence line: the fence lines before it pair up
Opens(k) == IsFence(lines[k]) /\ FenceCount(k - 1) % 2 = 0

\* the last line of the fence that line k opens: its closing fence line,
\* or the last line of the document
RECURSIVE CloserFrom(_)
CloserFrom(k) == IF k >= n \/ IsFence(lines[k]) THEN k ELSE CloserFrom(k + 1)
Closes(k) == IF k >= n THEN n ELSE CloserFrom(k + 1)

\* offset o lies strictly inside an open code fence
InsideFence(o) ==
    \E k \in 1..n : Opens(k) /\ LineStart(k) < o /\ o < LineStart(Closes(k) + 1)

\* a chunk that is one atomic block, alone
SingleBlock(c) ==
    \E k \in 1..Len(blocks) :
        blocks[k].start = c.start /\ blocks[k].end = c.end /\ blocks[k].text = c.text

\* the block that opens the chunk after chunk k
NextBlockOf(k) ==
    CHOOSE b \in {blocks[j] : j \in 1..Len(blocks)} : b.start = packed[k + 1].start

\* the chunk list is in start order, so list order is the sorted order
\* the tiling claims speak of
PackedInStartOrder ==
    \A k \in 1..(Len(packed) - 1) : packed[k].start < packed[k + 1].start

\* C1: the chunks split returns, sorted by start offset, tile the document:
\* the first starts at 0, each starts where the one before ends, the last
\* ends at the document length; the empty document yields no chunk.
C1_Tiling ==
    pcS = "done" =>
        /\ PackedInStartOrder
        /\ lines = <<>> => packed = <<>>
        /\ IF packed = <<>> THEN DocLen = 0
           ELSE /\ packed[1].start = 0
                /\ \A k \in 1..(Len(packed) - 1) : packed[k + 1].start = packed[k].end
                /\ packed[Len(packed)].end = DocLen

\* C2 as stated: every chunk holds between CH_MIN and CH_MAX tokens unless
\* it is a single atomic block larger than CH_MAX, and every such block is
\* a chunk of its own.
C2_PackingBounds ==
    pcS = "done" =>
        /\ \A k \in 1..Len(packed) :
               \/ (CH_MIN <= packed[k].tokens /\ packed[k].tokens <= CH_MAX)
               \/ (packed[k].tokens > CH_MAX /\ SingleBlock(packed[k]))
        /\ \A j \in 1..Len(blocks) :
               blocks[j].tokens > CH_MAX =>
                   \E k \in 1..Len(packed) :
                       /\ packed[k].start = blocks[j].start
                       /\ packed[k].end = blocks[j].end
                       /\ packed[k].text = blocks[j].text

\* C2 amended: no chunk holds more than CH_MAX tokens unless it is a single
\* atomic block larger than CH_MAX, and every such block is a chunk of its
\* own; a chunk holds fewer than CH_MIN tokens only if it is the last one
\* or the block after it would have taken it over CH_MAX.
C2_UpperBoundAndGreedy ==
    pcS = "done" =>
        /\ \A k \in 1..Len(packed) :
               \/ packed[k].tokens <= CH_MAX
               \/ SingleBlock(packed[k])
        /\ \A j \in 1..Len(blocks) :
               blocks[j].tokens > CH_MAX =>
                   \E k \in 1..Len(packed) :
                       /\ packed[k].start = blocks[j].start
                       /\ packed[k].end = blocks[j].end
                       /\ packed[k].text = blocks[j].text
        /\ \A k \in 1..(Len(packed) - 1) :
               packed[k].tokens < CH_MIN =>
                   packed[k].tokens + NextBlockOf(k).tokens > CH_MAX

\* split has returned a chunk under CH_MIN that is not the last, and an
\* oversized block as a chunk
C2_Witness ==
    /\ pcS = "done"
    /\ \E k \in 1..(Len(packed) - 1) : packed[k].tokens < CH_MIN
    /\ \E k \in 1..Len(packed) : packed[k].tokens > CH_MAX

\* C3: no chunk boundary falls inside a code fence: the lines from an
\* opening fence line to its closing fence line (or to the end of an
\* unterminated fence) lie in one atomic block and in one chunk.
C3_FenceIntegrity ==
    pcS = "done" =>
        /\ \A c \in 1..Len(packed) :
               ~InsideFence(packed[c].start) /\ ~InsideFence(packed[c].end)
        /\ \A k \in 1..n :
               Opens(k) =>
                   /\ \E b \in 1..Len(blocks) :
                          /\ blocks[b].kind = "code"
                          /\ blocks[b].start = LineStart(k)
                          /\ blocks[b].end = LineStart(Closes(k) + 1)
                          /\ blocks[b].text = SubSeq(lines, k, Closes(k))
                   /\ \E c \in 1..Len(packed) :
                          /\ packed[c].start <= LineStart(k)
                          /\ LineStart(Closes(k) + 1) <= packed[c].end

\* split has returned several chunks for a document holding a closed fence
\* with a blank line and a heading or list line between its fence lines
C3_Witness ==
    /\ pcS = "done"
    /\ Len(packed) >= 2
    /\ \E k \in 1..n :
           /\ Opens(k)
           /\ Closes(k) = k + 2
           /\ IsFence(lines[k + 2])
           /\ ~IsFence(lines[k + 1])
           /\ lines[k + 1].kind \in {"blank", "heading", "list"}

\* ------------------------------------------------------------------------
\* Claims about compress_to_target
\* ------------------------------------------------------------------------

\* chunk number c is in the batch in flight
InBatch(c) == \E k \in 1..Len(batch) : batch[k].ch = c

\* chunk c passes the three exclusions of the candidate list
Eligible(c) ==
    /\ _tok(chunks[c].text) > 1
    /\ chunks[c].attempts < MaxAttempts
    /\ ~(chunks[c].orig # 0 /\ 10 * _tok(chunks[c].text) < 7 * chunks[c].orig)

\* chunk a comes strictly before chunk b in (score ascending, tokens
\* descending)
Outranks(a, b) ==
    \/ chunks[a].score < chunks[b].score
    \/ chunks[a].score = chunks[b].score /\ chunks[a].tokens > chunks[b].tokens

\* C4: the total token count never grows from one step of the scheduler to
\* the next, no chunk's token count ever grows, and the total the loop
\* recomputes never grows, whatever the requests return.
C4_Monotone ==
    [][/\ Len(chunks') = Len(chunks)
       /\ total(chunks') <= total(chunks)
       /\ \A c \in 1..Len(chunks) :
              /\ _tok(chunks'[c].text) <= _tok(chunks[c].text)
              /\ chunks'[c].tokens <= chunks[c].tokens
       /\ cur' <= cur]_vars

\* the scheduler has gone through an iteration in which one response was
\* accepted and a longer one, for another chunk, was discarded
C4_Witness ==
    /\ pc = "loop"
    /\ it >= 1
    /\ total(chunks) < total(entry)
    /\ \E c \in 1..Len(chunks) : chunks[c].attempts >= 1 /\ chunks[c].text = entry[c].text

\* C5: an iteration in which no chunk's text was replaced is the last one:
\* the scheduler stops after it whether or not the target is met, and a run
\* in which no text was ever replaced has made at most one iteration.
C5_StallStops ==
    [][/\ (pc = "gather" /\ pc' # "gather"
           /\ \A c \in 1..Len(chunks) : chunks'[c].text = chunks[c].text)
          => pc' = "done"
       /\ (pc' = "done" /\ \A c \in 1..Len(chunks) : chunks'[c].text = entry'[c].text)
          => it' <= 1]_vars

\* the scheduler has stopped above the target after one iteration whose
\* responses were all discarded
C5_Witness ==
    /\ pc = "done"
    /\ it = 1
    /\ cur > target_tokens
    /\ \A c \in 1..Len(chunks) : chunks[c].text = entry[c].text
    /\ \E c \in 1..Len(chunks) : chunks[c].attempts = 1

\* requests of the batch in flight that are not back yet
NotBack == Cardinality({k \in 1..Len(results) : results[k].st = "pending"})

\* the steps compress_to_target can still take, at most: what is left of
\* the iteration in flight and batch_size + 2 steps for each iteration the
\* cap still allows
StepsLeft ==
    CASE pc = "loop" -> (MaxIter - it) * (batch_size + 2) + 1
      [] pc = "gather" -> (MaxIter - it) * (batch_size + 2) + 2 + NotBack
      [] OTHER -> 0

\* C6: whatever the requests return, compress_to_target makes at most 32
\* iterations and ends: every step uses up one of a finite number of
\* steps left, and a step can be taken until it has returned.  It
\* returns a total no larger than the total on entry, also when that
\* total is above the target.
C6_Terminates ==
    /\ [](it <= MaxIter /\ StepsLeft >= 0)
    /\ [][StepsLeft' < StepsLeft]_vars
    /\ [](pc # "done" => ENABLED NextSched)
    /\ [](pc = "done" => total(chunks) <= total(entry))

\* the scheduler has stopped at the iteration cap with the total still
\* above the target
C6_Witness ==
    /\ pc = "done"
    /\ it = MaxIter
    /\ improved
    /\ cur > target_tokens

\* C7: the batch is the first batch_size eligible chunks in (score
\* ascending, tokens descending) order, ties in original order: no
\* eligible chunk left out outranks a selected one, the batch is full
\* unless every eligible chunk is in it, and the batch is in that order.
C7_Priority ==
    pc = "gather" =>
        /\ \A u \in 1..Len(chunks) :
               (Eligible(u) /\ ~InBatch(u)) =>
                   /\ Len(batch) = batch_size
                   /\ \A k \in 1..Len(batch) :
                          /\ ~Outranks(u, batch[k].ch)
                          /\ Outranks(batch[k].ch, u) \/ batch[k].ch < u
        /\ \A k \in 1..Len(batch) : Eligible(batch[k].ch)
        /\ Len(batch) <= batch_size
        /\ \A j, k \in 1..Len(batch) :
               j < k => /\ batch[j].ch # batch[k].ch
                        /\ ~Outranks(batch[k].ch, batch[j].ch)
                        /\ Outranks(batch[j].ch, batch[k].ch) \/ batch[j].ch < batch[k].ch

\* a batch is in flight that holds a later chunk of low score and many
\* tokens while an earlier eligible chunk of higher score and fewer tokens
\* waits
C7_Witness ==
    /\ pc = "gather"
    /\ \E u \in 1..Len(chunks) :
           /\ Eligible(u)
           /\ ~InBatch(u)
           /\ \E k \in 1..Len(batch) :
                  /\ batch[k].ch > u
                  /\ chunks[batch[k].ch].score < chunks[u].score
                  /\ chunks[batch[k].ch].tokens > chunks[u].tokens

\* ------------------------------------------------------------------------
\* Claims about cached_compress and main
\* ------------------------------------------------------------------------

\* the positions of a run whose cached_compress has returned
HasReturned == {"returned", "done", "keyerror"}

\* C8: of two successive invocations with the same text, intent and
\* reduction fraction, the second returns the compressed text the first
\* returned and reports cache_hit = true.
C8_Idempotent ==
    [][\A a, b \in Runs :
          (/\ a # b
           /\ pcR[a] \in HasReturned
           /\ req[a] = req[b]
           /\ pcR[b] = "start"
           /\ pcR'[b] # "start")
          => /\ pcR'[b] = "returned"
             /\ ret'[b].stats.cache_hit = TRUE
             /\ ret'[b].text = ret[a].text]_vars

\* an invocation has returned a hit after an invocation with the same
\* arguments returned what it computed
C8_Witness ==
    \E a, b \in Runs :
        /\ req[a] = req[b]
        /\ pcR[a] \in HasReturned
        /\ pcR[b] \in HasReturned
        /\ ~ret[a].stats.cache_hit
        /\ ret[b].stats.cache_hit
        /\ ret[b].text = ret[a].text

\* C9: cached_compress queries the cache first.  On a hit compress_func is
\* not invoked and the stored text, chunks and token counts are returned
\* with cache_hit = true; on a miss compress_func is invoked once, its
\* result is then stored under the key of the request, and cache_hit =
\* false is returned.
C9_CacheFirst ==
    [][\A r \in Runs :
          LET k == KeyOf(req[r])
          IN /\ (pcR[r] = "start" /\ pcR'[r] # "start") =>
                    IF k \in DOMAIN store
                    THEN /\ pcR'[r] = "returned"
                         /\ calls'[r] = 0
                         /\ ret'[r].text = store[k].compressed_text
                         /\ ret'[r].chunks = store[k].chunks
                         /\ ret'[r].stats.cache_hit = TRUE
                         /\ ret'[r].stats.original_tokens = store[k].original_tokens
                         /\ ret'[r].stats.final_tokens = store[k].final_tokens
                    ELSE /\ pcR'[r] = "miss"
                         /\ calls'[r] = 0
                         /\ store' = store
             /\ (pcR[r] \notin {"start", "returned"} /\ pcR'[r] = "returned") =>
                    /\ calls'[r] = 1
                    /\ ret'[r].stats.cache_hit = FALSE
                    /\ ret'[r].text = got[r].text
                    /\ k \in DOMAIN store'
                    /\ store'[k].compressed_text = got[r].text
                    /\ store'[k].original_tokens = got[r].stats.original_tokens
                    /\ store'[k].final_tokens = got[r].stats.final_tokens
             /\ calls'[r] # calls[r] => (pcR[r] = "miss" /\ calls'[r] = 1)]_vars

\* a request has been served from the row that a request with another
\* text of the same key stored after computing it
C9_Witness ==
    \E a, b \in Runs :
        /\ req[a] # req[b]
        /\ KeyOf(req[a]) = KeyOf(req[b])
        /\ pcR[a] \in HasReturned
        /\ pcR[b] \in HasReturned
        /\ calls[a] = 1
        /\ calls[b] = 0
        /\ ret[b].stats.cache_hit

\* C10: a run of main whose cached_compress has returned, from the cache
\* or not, delivers the compressed text, the original, target and final
\* token counts and the hit flag: the stats hold the keys main reads, and
\* main does not end in a KeyError.
C10_FiveOutputs ==
    \A r \in Runs :
        /\ pcR[r] \in HasReturned =>
               ReadKeys \cup {"cache_hit"} \subseteq DOMAIN ret[r].stats
        /\ pcR[r] # "keyerror"
        /\ pcR[r] = "done" =>
               DOMAIN result[r] = {"compressed", "original_tokens", "target_tokens",
                                   "final_tokens", "cache_hit"}

\* ------------------------------------------------------------------------
\* Claims about plan and the scripts
\* ------------------------------------------------------------------------

\* plan has just returned
JustPlanned ==
    /\ budget # NoValue
    /\ \/ prog = "main" /\ pcM = "schedule"
       \/ prog = "demo" /\ pcM = "rate"

\* C11: for a reduction fraction in [0, 0.95], plan returns current = the
\* recomputed sum of the chunk tokens and target = floor(current * (1 -
\* reduce_by)), so 0 <= target <= current; fraction 0 gives target =
\* current and fraction 0.95 gives floor(0.05 * current).
C11_PlanArithmetic ==
    (JustPlanned /\ 0 <= reduce_by /\ reduce_by <= 95) =>
        /\ budget.current = SumToks(chunks)
        /\ \A c \in 1..Len(chunks) : chunks[c].tokens = _tok(chunks[c].text)
        /\ budget.target = (budget.current * (100 - reduce_by)) \div 100
        /\ 0 <= budget.target
        /\ budget.target <= budget.current
        /\ reduce_by = 0 => budget.target = budget.current
        /\ reduce_by = 95 => budget.target = (5 * budget.current) \div 100

\* C12: the reduction fraction that reaches plan (and the cache key) has
\* been clamped into [0, 0.95], so the planned target is never below
\* floor(0.05 * current).
C12_Clamped ==
    /\ pcM \notin {"idle", "input"} => (0 <= reduce_by /\ reduce_by <= 95)
    /\ budget # NoValue =>
           /\ 0 <= budget.reduce_by
           /\ budget.reduce_by <= 95
           /\ budget.target >= (5 * budget.current) \div 100

\* C15: a rating request that fails does not make rate_chunks raise: the
\* script never ends in the exception, every chunk is rated when the
\* rating is over, and a run of main goes on to plan, to schedule and to
\* return a result.
C15_RatingIsolated ==
    /\ pcM # "raised"
    /\ pcM \in {"schedule", "compress", "returned", "report"} =>
           \A c \in 1..Len(chunks) : chunks[c].score # NoScore

\* ------------------------------------------------------------------------
\* Claims about the responses to rewrite requests
\* ------------------------------------------------------------------------

\* gather returns and the results are applied in this step
Applying == pc = "gather" /\ pc' # "gather"

\* C13: every request dispatched for a chunk adds exactly one to the
\* chunk's attempt counter when it completes, whether its response is
\* accepted or discarded or the request failed; a chunk without a request
\* keeps its counter.
C13_AttemptsCount ==
    [][/\ Applying =>
              \A c \in 1..Len(chunks) :
                  chunks'[c].attempts = chunks[c].attempts + (IF InBatch(c) THEN 1 ELSE 0)
       /\ ~Applying =>
              \A c \in 1..Len(chunks) : chunks'[c].attempts = chunks[c].attempts]_vars

\* C14: a response replaces the chunk's text if and only if it has strictly
\* fewer tokens than the chunk had at dispatch; after an equal, a longer or
\* an empty response or a failed request the chunk's text and token count
\* are what they were, as are those of every chunk without a request.
C14_AcceptIff ==
    [][/\ Applying =>
              /\ \A k \in 1..Len(batch) :
                     LET c == batch[k].ch
                     IN /\ batch[k].t0 = _tok(chunks[c].text)
                        /\ IF results[k].st = "ok" /\ _tok(results[k].out) < batch[k].t0
                           THEN /\ chunks'[c].text = results[k].out
                                /\ chunks'[c].tokens = _tok(results[k].out)
                           ELSE /\ chunks'[c].text = chunks[c].text
                                /\ chunks'[c].tokens = chunks[c].tokens
              /\ \A c \in 1..Len(chunks) :
                     ~InBatch(c) => /\ chunks'[c].text = chunks[c].text
                                    /\ chunks'[c].tokens = chunks[c].tokens
       /\ ~Applying =>
              \A c \in 1..Len(chunks) :
                  /\ chunks'[c].text = chunks[c].text
                  /\ chunks'[c].tokens = chunks[c].tokens]_vars

\* an iteration is over in which one chunk's shorter response was accepted
\* and another chunk's request gave it nothing: the one has a new text, the
\* other, selected too, has the text it came with
C14_Witness ==
    /\ pc \in {"loop", "done"}
    /\ it = 1
    /\ \E a, b \in 1..Len(chunks) :
           /\ a # b
           /\ chunks[a].text # entry[a].text
           /\ _tok(chunks[a].text) < _tok(entry[a].text)
           /\ chunks[b].orig # 0
           /\ chunks[b].text = entry[b].text
           /\ chunks[b].tokens = entry[b].tokens

\* ------------------------------------------------------------------------
\* Claims about the cache object
\* ------------------------------------------------------------------------

\* the name of the call a reply records
Op(r) == IF "op" \in DOMAIN r THEN r.op ELSE "none"

\* the payload the arguments of a cache_result call amount to
PayloadOf(q, g) ==
    [original_text |-> q.text,
     compressed_text |-> g.text,
     chunks |-> [k \in 1..Len(g.chunks) |->
                    [f \in {"idx", "text", "tokens"} |-> g.chunks[k][f]]],
     original_tokens |-> g.stats.original_tokens,
     final_tokens |-> g.stats.final_tokens,
     reduction_ratio |-> q.reduction_ratio,
     intent |-> q.intent]

\* C16: the table holds one row for a key; cache_result on a key that is
\* present replaces the row's payload with the one it was given and leaves
\* every other row alone, and a second cache_result with the same arguments
\* leaves the payloads as the first left them.
C16_PutReplaces ==
    [][(Op(reply') = "cache_result" /\ now' = now) =>
          LET k == reply'.key
          IN /\ k = KeyOf(reply'.q)
             /\ DOMAIN store' = DOMAIN store \cup {k}
             /\ Payload(store'[k]) = PayloadOf(reply'.q, reply'.g)
             /\ \A j \in DOMAIN store \ {k} : store'[j] = store[j]
             /\ (Op(reply) = "cache_result" /\ reply.q = reply'.q /\ reply.g = reply'.g)
                    => /\ DOMAIN store' = DOMAIN store
                       /\ \A j \in DOMAIN store : Payload(store'[j]) = Payload(store[j])]_vars

\* cache_result has replaced a row that held another payload, at a later
\* time than the row was written
C16_Witness ==
    /\ Op(reply) = "cache_result"
    /\ reply.had # NoValue
    /\ reply.had # Payload(store[reply.key])
    /\ reply.at >= 1
    /\ Cardinality(DOMAIN store) >= 2

\* C17: get_cached_result on a key that is present returns the payload
\* last stored under the key and sets the row's accessed_at to the current
\* time, changing nothing else; on an absent key it returns None and leaves
\* the table as it is.
C17_GetRefreshes ==
    [][(Op(reply') = "get_cached_result" /\ now' = now) =>
          LET k == reply'.key
          IN IF k \in DOMAIN store
             THEN /\ reply'.value # NoValue
                  /\ Payload(reply'.value) = Payload(store[k])
                  /\ (Op(reply) = "cache_result" /\ reply.key = k)
                         => Payload(reply'.value) = PayloadOf(reply.q, reply.g)
                  /\ DOMAIN store' = DOMAIN store
                  /\ store'[k].accessed_at = now
                  /\ store'[k] = [store[k] EXCEPT !.accessed_at = now]
                  /\ \A j \in DOMAIN store \ {k} : store'[j] = store[j]
             ELSE /\ reply'.value = NoValue
                  /\ store' = store]_vars

\* get_cached_result has returned a row, stored for another text of the
\* same key, that was last accessed before the call, and the row is now
\* marked as accessed at the time of the call
C17_Witness ==
    /\ Op(reply) = "get_cached_result"
    /\ reply.value # NoValue
    /\ reply.key \in DOMAIN store
    /\ reply.value.original_text # reply.q.text
    /\ reply.value.accessed_at < reply.at
    /\ store[reply.key].accessed_at = reply.at
    /\ reply.at = now

\* C18: cleanup_old_entries(days_old) deletes exactly the rows last
\* accessed before now minus days_old, leaves the other rows as they are
\* and returns the number of rows deleted; a row stored or read within the
\* window is not deleted.
C18_CleanupExact ==
    [][(Op(reply') = "cleanup_old_entries" /\ now' = now) =>
          LET w == reply'.days_old
          IN /\ DOMAIN store' = {k \in DOMAIN store : store[k].accessed_at >= now - w}
             /\ \A k \in DOMAIN store' : store'[k] = store[k]
             /\ reply'.value = Cardinality(DOMAIN store) - Cardinality(DOMAIN store')
             /\ (/\ Op(reply) \in {"cache_result", "get_cached_result"}
                 /\ reply.key \in DOMAIN store
                 /\ reply.at >= now - w)
                    => reply.key \in DOMAIN store']_vars

\* cleanup has deleted one row and kept another that was written before
\* the window began and read within it
C18_Witness ==
    /\ Op(reply) = "cleanup_old_entries"
    /\ reply.at = now
    /\ reply.value >= 1
    /\ \E k \in DOMAIN store :
           /\ store[k].created_at < now - reply.days_old
           /\ store[k].accessed_at >= now - reply.days_old

\* C19: when two runs with the same key both miss, both compute and both
\* store, neither raises, every cache_result leaves the key with the
\* payload it was given and the other rows alone, and once both have
\* returned the table holds the key with the payload of one of the two:
\* that of the later cache_result.
C19_LastWriterWins ==
    /\ [][\A r \in Runs :
             (pcR[r] = "computed" /\ pcR'[r] # "computed") =>
                 LET k == KeyOf(req[r])
                 IN /\ pcR'[r] = "returned"
                    /\ DOMAIN store' = DOMAIN store \cup {k}
                    /\ Payload(store'[k]) = PayloadOf(req[r], got[r])
                    /\ \A j \in DOMAIN store \ {k} : store'[j] = store[j]]_vars
    /\ [](\A a, b \in Runs :
             (/\ a # b
              /\ KeyOf(req[a]) = KeyOf(req[b])
              /\ got[a] # NoValue
              /\ got[b] # NoValue)
             => /\ pcR[a] \in {"computed", "returned", "done"}
                /\ pcR[b] \in {"computed", "returned", "done"}
                /\ (pcR[a] \in {"returned", "done"} /\ pcR[b] \in {"returned", "done"})
                       => /\ KeyOf(req[a]) \in DOMAIN store
                          /\ \/ Payload(store[KeyOf(req[a])]) = PayloadOf(req[a], got[a])
                             \/ Payload(store[KeyOf(req[a])]) = PayloadOf(req[b], got[b]))

\* two runs with different texts of one key have both computed, with
\* different results, and both ended; the table holds the key once
C19_Witness ==
    \E a, b \in Runs :
        /\ a # b
        /\ req[a].text # req[b].text
        /\ KeyOf(req[a]) = KeyOf(req[b])
        /\ calls[a] = 1
        /\ calls[b] = 1
        /\ pcR[a] = "done"
        /\ pcR[b] = "done"
        /\ got[a].text # got[b].text
        /\ DOMAIN store = {KeyOf(req[a])}
        /\ Payload(store[KeyOf(req[a])]) = PayloadOf(req[b], got[b])

\* ------------------------------------------------------------------------
\* Claims about unterminated fences
\* ------------------------------------------------------------------------

\* line k opens a fence that no later line closes
Unterminated(k) == Opens(k) /\ \A j \in (k + 1)..n : ~IsFence(lines[j])

\* C20: a fence that is never closed is no error: split goes on to return,
\* and the opening fence line with every line after it is one atomic block
\* of kind code, the last one, so that no block and no chunk starts after
\* the fence line and the last chunk ends with the document.
C20_UnterminatedFence ==
    /\ pcS # "done" => ENABLED NextSplit
    /\ pcS = "done" =>
           \A k \in 1..n :
               Unterminated(k) =>
                   /\ blocks # <<>>
                   /\ blocks[Len(blocks)].kind = "code"
                   /\ blocks[Len(blocks)].start = LineStart(k)
                   /\ blocks[Len(blocks)].end = DocLen
                   /\ blocks[Len(blocks)].text = SubSeq(lines, k, n)
                   /\ \A b \in 1..Len(blocks) : blocks[b].start <= LineStart(k)
                   /\ packed # <<>>
                   /\ \A c \in 1..Len(packed) : packed[c].start <= LineStart(k)
                   /\ packed[Len(packed)].end = DocLen

\* split has returned for a document in which a paragraph is followed by a
\* fence that is never closed and that holds a blank line and a heading or
\* list line
C20_Witness ==
    /\ pcS = "done"
    /\ n >= 4
    /\ lines[1].kind = "plain"
    /\ Unterminated(2)
    /\ IsBlank(lines[3])
    /\ lines[4].kind \in {"heading", "list"}

\* ------------------------------------------------------------------------
\* Claims about assembling
\* ------------------------------------------------------------------------

\* C21: when no rewrite is accepted the chunks split returns, their texts
\* joined in the order of their start offsets, are the document again; each
\* chunk's text is the part of the document between its start and its end.
C21_AssembleRoundTrip ==
    pcS = "done" =>
        /\ Join(_assemble(packed)) = lines
        /\ \A c \in 1..Len(packed) :
               packed[c].text = Slice(packed[c].start, packed[c].end)

\* ------------------------------------------------------------------------
\* Claims about the requests compress_to_target dispatches
\* ------------------------------------------------------------------------

\* C22: no rewrite request is dispatched for a chunk of at most one token,
\* for a chunk whose attempt counter has reached 3, or for a chunk whose
\* token count is below 70% of the original count recorded when it was
\* first selected; and so no chunk's attempt counter ever exceeds 3.
C22_NoWastedRequest ==
    /\ pc = "gather" =>
           \A k \in 1..Len(batch) :
               LET ch == chunks[batch[k].ch]
               IN /\ batch[k].t0 = _tok(ch.text)
                  /\ _tok(ch.text) > 1
                  /\ ch.attempts < 3
                  /\ ch.orig >= _tok(ch.text)
                  /\ 10 * _tok(ch.text) >= 7 * ch.orig
    /\ \A c \in 1..Len(chunks) : chunks[c].attempts <= 3

\* requests are in flight while a chunk of more than one token, still at
\* 70% of its original count or above, is left out of a batch that is not
\* full: its attempt counter is at 3
C22_Witness ==
    /\ pc = "gather"
    /\ Len(batch) < batch_size
    /\ \E c \in 1..Len(chunks) :
           /\ ~InBatch(c)
           /\ _tok(chunks[c].text) > 1
           /\ chunks[c].attempts = 3
           /\ 10 * _tok(chunks[c].text) >= 7 * chunks[c].orig

\* the shrink request k asks for and the deficit it was computed from
ShrinkOf(k) == batch[k].t0 - batch[k].new_tok
Deficit == cur - target_tokens

\* C23 as stated: for every dispatched chunk of t0 >= 2 tokens, with a
\* deficit of at least 1 and a batch size of at least 1, the target
\* satisfies 1 <= new_tok < t0, the shrink asked for is no more than 40% of
\* t0 and no more than max(1, deficit / batch_size).
C23_ShrinkBounds ==
    pc = "gather" =>
        \A k \in 1..Len(batch) :
            (batch[k].t0 >= 2 /\ Deficit >= 1 /\ batch_size >= 1) =>
                /\ 1 <= batch[k].new_tok
                /\ batch[k].new_tok < batch[k].t0
                /\ 10 * ShrinkOf(k) <= 4 * batch[k].t0
                /\ batch_size * ShrinkOf(k) <= Max(batch_size, Deficit)

\* C23 amended: for every dispatched chunk of t0 >= 2 tokens, with a
\* deficit of at least 1 and a batch size of at least 1, the target
\* satisfies 1 <= new_tok < t0, the shrink asked for is one token or no
\* more than 40% of t0, and it is no more than max(1, deficit / batch_size).
C23_ShrinkBoundsOrOne ==
    pc = "gather" =>
        \A k \in 1..Len(batch) :
            (batch[k].t0 >= 2 /\ Deficit >= 1 /\ batch_size >= 1) =>
                /\ 1 <= batch[k].new_tok
                /\ batch[k].new_tok < batch[k].t0
                /\ ShrinkOf(k) = 1 \/ 10 * ShrinkOf(k) <= 4 * batch[k].t0
                /\ batch_size * ShrinkOf(k) <= Max(batch_size, Deficit)

\* a request is in flight for a chunk of two tokens, asked to shrink to
\* one, beside a request for a larger chunk
C23_Witness ==
    /\ pc = "gather"
    /\ Deficit >= 1
    /\ \E k \in 1..Len(batch) : batch[k].t0 = 2 /\ batch[k].new_tok = 1
    /\ \E k \in 1..Len(batch) : batch[k].t0 > 2 /\ ShrinkOf(k) >= 1

\* C24: in one run of compress_to_target no chunk is sent to the rewrite
\* oracle more than 3 times, whether its responses were accepted, discarded
\* or failed.
C24_RequestCap == \A c \in 1..Len(sent) : sent[c] <= 3

\* ------------------------------------------------------------------------
\* Claims about the requests in flight
\* ------------------------------------------------------------------------

\* chunks of rate_chunks that wait for a permit
Waiting == {c \in 1..Len(chunks) : chunks[c].score = NoScore /\ c \notin holding}

\* C25: the requests in flight never exceed the configured limit: at most
\* batch_size rewrite requests in an iteration of the scheduler and at most
\* `concurrency` rating requests holding a permit; a chunk that waits for a
\* permit gets one in the end (rate_chunks can always take a step until it
\* has returned or raised), and when rate_chunks returns every chunk is
\* rated.
C25_Bounded ==
    /\ pc = "gather" => Len(batch) <= batch_size /\ NotBack <= batch_size
    /\ Cardinality(holding) <= concurrency
    /\ pcM = "rate" => ENABLED NextRate
    /\ pcM = "returned" =>
           /\ holding = {}
           /\ \A c \in 1..Len(chunks) : chunks[c].score # NoScore

\* every permit of rate_chunks is held while a chunk waits for one, after
\* another chunk was rated
C25_Witness ==
    /\ pcM = "rate"
    /\ Cardinality(holding) = concurrency
    /\ Waiting # {}
    /\ \E c \in 1..Len(chunks) : chunks[c].score # NoScore

\* the request of the batch in flight that is for chunk c
RequestFor(c) == CHOOSE k \in 1..Len(batch) : batch[k].ch = c

\* chunk ch after a request for it, dispatched at t0 tokens, came back as r
After(ch, r, t0) ==
    IF r.st = "failed" THEN ch
    ELSE IF _tok(r.out) < t0
         THEN [ch EXCEPT !.text = r.out, !.tokens = _tok(r.out), !.attempts = @ + 1]
         ELSE [ch EXCEPT !.attempts = @ + 1]

\* C26: in one iteration a chunk has at most one request in flight, and
\* when gather returns each chunk of the batch changes by what its own
\* request came back with and no other chunk changes: what the iteration
\* leaves does not depend on the order the requests completed in, and a
\* request that failed does not keep another chunk's shorter response from
\* being accepted.
C26_OwnResultOnly ==
    [][/\ pc = "gather" =>
              /\ \A j, k \in 1..Len(batch) : batch[j].ch = batch[k].ch => j = k
              /\ \A j, k \in 1..Len(order) : order[j] = order[k] => j = k
       /\ Applying =>
              \A c \in 1..Len(chunks) :
                  chunks'[c] = IF InBatch(c)
                               THEN After(chunks[c], results[RequestFor(c)],
                                          batch[RequestFor(c)].t0)
                               ELSE chunks[c]]_vars

\* an iteration is over in which the second request completed before the
\* first: one request failed, and the other chunk's shorter response was
\* accepted
C26_Witness ==
    /\ pc = "loop"
    /\ it = 1
    /\ order = <<2, 1>>
    /\ \E a, b \in 1..Len(chunks) :
           /\ chunks[a].orig # 0
           /\ chunks[a].attempts = 0
           /\ chunks[b].attempts = 1
           /\ _tok(chunks[b].text) < _tok(entry[b].text)

\* ------------------------------------------------------------------------
\* Claims about merging in the packing phase
\* ------------------------------------------------------------------------

\* the next block would push the buffer over CH_MAX and the buffer holds
\* fewer than CH_MIN tokens
Overflowing ==
    /\ pcS = "pack"
    /\ bi < Len(blocks)
    /\ cur_parts # <<>>
    /\ cur_tokens + tok(blocks[bi + 1].text) > CH_MAX
    /\ cur_tokens < CH_MIN

\* the buffer is left at the end of the input with fewer than CH_MIN tokens
LeftOver == pcS = "final" /\ cur_parts # <<>> /\ cur_tokens < CH_MIN

\* there is a previous chunk and it has room for the buffer
MergeRoom ==
    /\ packed # <<>>
    /\ tok(packed[Len(packed)].text) + cur_tokens <= CH_MAX

\* the chunk list once the buffer has gone into the previous chunk or into
\* a chunk of its own
MergedOrFlushed ==
    IF MergeRoom
    THEN /\ Len(packed') = Len(packed)
         /\ \A c \in 1..(Len(packed) - 1) : packed'[c] = packed[c]
         /\ packed'[Len(packed)].start = packed[Len(packed)].start
         /\ packed'[Len(packed)].end = cur_end
         /\ packed'[Len(packed)].kind = "section"
         /\ packed'[Len(packed)].text = packed[Len(packed)].text \o Join(cur_parts)
         /\ packed'[Len(packed)].tokens = tok(packed[Len(packed)].text) + cur_tokens
    ELSE /\ Len(packed') = Len(packed) + 1
         /\ \A c \in 1..Len(packed) : packed'[c] = packed[c]
         /\ packed'[Len(packed')].start = cur_start
         /\ packed'[Len(packed')].end = cur_end
         /\ packed'[Len(packed')].kind = cur_kind
         /\ packed'[Len(packed')].text = Join(cur_parts)
         /\ packed'[Len(packed')].tokens = cur_tokens

NoRoomToMerge == (Overflowing \/ LeftOver) => ~MergeRoom

\* ------------------------------------------------------------------------
\* Claims about what compress_to_target leaves alone
\* ------------------------------------------------------------------------

\* the keys of a chunk that compress_to_target has no business with
Frame(ch) == <<ch.id, ch.idx, ch.start, ch.end, ch.kind, ch.score>>

\* C28: compress_to_target changes only a chunk's text, token count,
\* attempt counter and recorded original count: at every step and on
\* return the chunks are as many and in the same order as on entry, and
\* each has the id, idx, start, end, kind and score it had on entry.
C28_Frame ==
    pc \in {"loop", "gather", "done"} =>
        /\ Len(chunks) = Len(entry)
        /\ \A c \in 1..Len(chunks) : Frame(chunks[c]) = Frame(entry[c])

\* compress_to_target has returned a list in which one chunk has a new
\* text and token count and another only its bookkeeping
C28_Witness ==
    /\ pc = "done"
    /\ \E a, b \in 1..Len(chunks) :
           /\ chunks[a].text # entry[a].text
           /\ chunks[a].tokens < entry[a].tokens
           /\ chunks[b].text = entry[b].text
           /\ chunks[b].attempts >= 1
           /\ chunks[b].orig # entry[b].orig

\* ------------------------------------------------------------------------
\* Claims about the cache key
\* ------------------------------------------------------------------------

\* the intent with an absent one taken as the empty string
IntentOrEmpty(q) == IF q.intent = NoIntent THEN "" ELSE q.intent

\* two requests agree in the stripped text, the intent and the fraction
SameThree(p, q) ==
    /\ Strip(p.text) = Strip(q.text)
    /\ IntentOrEmpty(p) = IntentOrEmpty(q)
    /\ p.reduction_ratio = q.reduction_ratio

\* run a has called compress_func and stored what it returned
HasStored(a) == calls[a] = 1 /\ pcR[a] \in {"returned", "done", "keyerror"}

\* C29: the key depends on the stripped text, the intent (absent taken as
\* empty) and the reduction fraction, and on them only: a run is served
\* from the cache exactly when another run has stored a result for a
\* request with the same three values, and it is served that result; a
\* request with another intent or fraction for the same text is a miss.
C29_KeyOfThree ==
    [][\A b \in Runs :
           (pcR[b] = "start" /\ pcR'[b] # "start") =>
               /\ pcR'[b] = "returned"
                      <=> \E a \in Runs \ {b} : HasStored(a) /\ SameThree(req[a], req[b])
               /\ pcR'[b] = "miss"
                      <=> ~\E a \in Runs \ {b} : HasStored(a) /\ SameThree(req[a], req[b])
               /\ \A a \in Runs \ {b} :
                      (HasStored(a) /\ SameThree(req[a], req[b])) =>
                          /\ ret'[b].text = got[a].text
                          /\ ret'[b].stats.cache_hit]_vars

\* a run was served what another run had stored for a text with other
\* blanks around it and for the empty intent in place of the absent one
C29_Witness ==
    \E a, b \in Runs :
        /\ HasStored(a)
        /\ pcR[b] = "returned"
        /\ calls[b] = 0
        /\ ret[b].text = got[a].text
        /\ req[a].text # req[b].text
        /\ req[a].intent # req[b].intent

\* ------------------------------------------------------------------------
\* Claims about the preset's caps
\* ------------------------------------------------------------------------

\* C30: in a run of main the caps compress_to_target enforces are those of
\* the preset: a request is dispatched only for a chunk whose attempt
\* counter is below the preset's max_compression_attempts, so that no
\* counter exceeds it, and the iterations stay within the preset's
\* max_iterations.
C30_PresetCaps ==
    (prog = "main" /\ pcM = "compress") =>
        /\ pc = "gather" =>
               \A k \in 1..Len(batch) :
                   chunks[batch[k].ch].attempts < max_compression_attempts(preset)
        /\ \A c \in 1..Len(chunks) :
               chunks[c].attempts <= max_compression_attempts(preset)
        /\ it <= max_iterations(preset)

\* ------------------------------------------------------------------------
\* Claims about the packing as a partition
\* ------------------------------------------------------------------------

\* the texts of blocks lo..hi, joined
RunText(lo, hi) == Join([k \in 1..(hi - lo + 1) |-> blocks[lo + k - 1].text])

\* chunk c is the run of blocks lo..hi
IsRun(c, lo, hi) ==
    /\ lo <= hi
    /\ packed[c].start = blocks[lo].start
    /\ packed[c].end = blocks[hi].end
    /\ packed[c].text = RunText(lo, hi)

\* C31: the packing phase cuts the sequence of atomic blocks into
\* consecutive non-empty runs, one for each chunk: the first run starts
\* with the first block, each run starts with the block after the last one
\* of the run before, the last run ends with the last block, and a chunk's
\* text is the texts of its run in document order, so that every block's
\* text is in exactly one chunk; the chunks' start offsets grow strictly
\* along the list, their [start, end) ranges do not overlap, and each
\* chunk's idx is its position in the list.
C31_Partition ==
    pcS = "done" =>
        /\ (packed = <<>>) <=> (blocks = <<>>)
        /\ \A c \in 1..Len(packed) :
               \E lo, hi \in 1..Len(blocks) :
                   /\ IsRun(c, lo, hi)
                   /\ c = 1 => lo = 1
                   /\ c > 1 => \E ph \in 1..Len(blocks) :
                                   /\ blocks[ph].end = packed[c - 1].end
                                   /\ lo = ph + 1
                   /\ c = Len(packed) => hi = Len(blocks)
        /\ \A j \in 1..Len(blocks) :
               Cardinality({c \in 1..Len(packed) :
                               /\ packed[c].start <= blocks[j].start
                               /\ blocks[j].end <= packed[c].end}) = 1
        /\ \A c \in 1..Len(packed) :
               /\ packed[c].start < packed[c].end
               /\ packed[c].idx = c - 1
        /\ \A c \in 1..(Len(packed) - 1) :
               /\ packed[c].start < packed[c + 1].start
               /\ packed[c].end <= packed[c + 1].start

\* split has returned two chunks or more for a document with a blank line:
\* one chunk is a run of two blocks or more, another a single block
C31_Witness ==
    /\ pcS = "done"
    /\ Len(packed) >= 2
    /\ \E k \in 1..n : IsBlank(lines[k])
    /\ \E c \in 1..Len(packed) : ~SingleBlock(packed[c])
    /\ \E c \in 1..Len(packed) : SingleBlock(packed[c])

====
